---- MODULE Spec2Model ----
(***************************************************************************)
(* Model of the performance layer of the employee GraphQL API:             *)
(*   - QueryComplexityAnalyzer  (src/src/performance/graphqlOptimizer.ts)  *)
(*   - GraphQLCache             (src/src/performance/graphqlOptimizer.ts)  *)
(*   - EmployeeDataLoader       (src/src/performance/graphqlOptimizer.ts)  *)
(*   - OptimizedQueryBuilder    (src/src/performance/databaseOptimizer.ts) *)
(*   - the write resolvers      (src/src/resolvers.ts)                     *)
(* Each component has its own specification over the shared variables.     *)
(***************************************************************************)
EXTENDS Integers, Sequences, FiniteSets, TLC

VARIABLES
    info,        \* the GraphQLResolveInfo last handed to calculateComplexity
    rules,       \* the weight table calculateComplexity ran with
    costResult,  \* what that call did: returned a number or threw
    now,         \* Date.now(), in milliseconds
    gqlCache,    \* GraphQLCache.cache: key -> {data, timestamp, ttl}
    gqlLast,     \* the last GraphQLCache operation, what a get returned, and (had)
                 \* whether a set or get found an entry, a clear was given a pattern
    gqlWritten,  \* history: per key, the last set not followed by a clear of the key
    db,          \* the Employee table: id -> row
    nextId,      \* the table's AUTO_INCREMENT counter
    writes,      \* number of successful writes so far
    mutLast,     \* the last mutation resolver that ran, and how it ended
    loaderCreated, \* EmployeeDataLoader.instance is set
    request,     \* number of the request being served
    idMemo,      \* employeeLoader's promise cache: id -> memoized result
    emailMemo,   \* employeeByEmailLoader's promise cache: email -> memoized result
    idQueue,     \* employeeLoader's current batch: the keys to fetch
    emailQueue,  \* employeeByEmailLoader's current batch
    phase,       \* "collecting" within a tick, "dispatched" once its batches ran
    ticks,       \* number of ticks in which a load was issued
    tickCalls,   \* history: the load calls of the tick, in order
    tickFetches, \* history: the findMany calls the tick's dispatch made
    clearLast,   \* history: the argument of the clear call that just returned
    tickResults, \* history: what each load call of the tick resolved to
    qbCache,     \* OptimizedQueryBuilder.cache: key -> {data, timestamp}
    qbReads,     \* the facade calls waiting for the store's answer
    qbLast,      \* history: the facade call that just returned, and what it returned
    queryTimes,  \* QueryPerformanceMonitor.queryTimes: name -> durations
    wlog,        \* history: the row ids of the successful writes, in order
    listOptions, \* the options of a getEmployeesWithOptimization call that misses
    listResult,  \* the result that call builds from the table
    heap,        \* the objects of the program: reference -> object
    held,        \* the references a caller of the caches holds
    callLast,    \* history: the request that just ended
    operationTimes, \* GraphQLPerformanceMonitor.operationTimes: name -> durations
    timers,      \* the callbacks startOperation and startQuery have returned
    stopLog,     \* history: the invocations of those callbacks, in order
    statsLast,   \* history: what the stats call that just returned reported
    requestCounts, \* RequestMonitor.requestCounts: endpoint -> {count, lastReset}
    requestTimes,  \* RequestMonitor.requestTimes: endpoint -> durations
    requestLog,  \* history: every recordRequest call, in order
    invalidated  \* history: the keys a clearCache(id) call is still in force for
                 \* and that no facade call has asked for since

costVars == <<info, rules, costResult>>
gqlVars == <<gqlCache, gqlLast, gqlWritten>>
dbVars == <<db, nextId, writes, mutLast>>
loaderVars == <<loaderCreated, request, idMemo, emailMemo, idQueue, emailQueue,
                phase, ticks, tickCalls, tickFetches, tickResults, clearLast>>

qbVars == <<qbCache, qbReads, qbLast, queryTimes, wlog>>
listVars == <<listOptions, listResult>>
shareVars == <<heap, held>>
accessVars == <<callLast>>
monitorVars == <<operationTimes, timers, stopLog, statsLast>>
requestVars == <<requestCounts, requestTimes, requestLog>>

vars == <<info, rules, costResult, now, gqlCache, gqlLast, gqlWritten,
          db, nextId, writes, mutLast,
          loaderCreated, request, idMemo, emailMemo, idQueue, emailQueue,
          phase, ticks, tickCalls, tickFetches, tickResults, clearLast,
          qbCache, qbReads, qbLast, queryTimes, wlog, listOptions, listResult,
          invalidated, heap, held, callLast, operationTimes, timers, stopLog, statsLast,
          requestCounts, requestTimes, requestLog>>

(***************************************************************************)
(* Bounds of the model.                                                    *)
(***************************************************************************)
\* longest top-level selection list that is enumerated field by field
MaxSel == 2
\* the instants of the clock: 0..MaxSkew and, five minutes later,
\* 300000..300000 + MaxSkew
MaxSkew == 2
\* largest id the Employee table hands out
MaxId == 3
\* number of successful writes in one behaviour
MaxWrites == 1
\* number of load calls in one tick
MaxCalls == 3
\* number of requests served in one behaviour
MaxRequests == 2
\* number of ticks with load calls in one behaviour
MaxTicks == 2
\* facade calls that may wait for the store at the same time
MaxReads == 2
\* facade calls that miss the cache (each records one duration sample)
MaxSamples == 2
\* callbacks handed out, and invocations of them
MaxTimers == 2
MaxStops == 3
\* recordRequest calls made in a behaviour
MaxRecorded == 3
\* objects a run allocates
MaxObjects == 3

(***************************************************************************)
(* QueryComplexityAnalyzer                                                 *)
(***************************************************************************)
\* const maxComplexity = 1000
maxComplexity == 1000

\* private static complexityRules: the weight table of the repository
complexityRules ==
    [Query    |-> [employees |-> 1, employee |-> 1],
     Mutation |-> [addEmployee |-> 10, updateEmployee |-> 5, deleteEmployee |-> 5,
                   login |-> 1, register |-> 10, resendPasswordEmail |-> 5],
     Employee |-> [id |-> 0, name |-> 0, email |-> 0, age |-> 0, department |-> 0,
                   position |-> 0, salary |-> 0, class |-> 0, subjects |-> 0,
                   attendance |-> 0, avatar |-> 0, phone |-> 0, address |-> 0,
                   startDate |-> 0, status |-> 0, role |-> 0]]

\* A second weight table, used as an input: type Root has the fields a (3) and
\* b (1); b's result type is itself named b and has the field c (2); the
\* Employee fields carry positive weights and one zero weight.
ExampleRules ==
    [Root     |-> [a |-> 3, b |-> 1],
     b        |-> [c |-> 2],
     Query    |-> [employees |-> 1, employee |-> 1],
     Employee |-> [id |-> 0, subjects |-> 2]]

RuleTables == {complexityRules, ExampleRules}

\* Selection nodes of the query AST (graphql-js SelectionNode).
Fld(n) == [kind |-> "Field", name |-> n, hasSelectionSet |-> FALSE, selections |-> <<>>]
FldSel(n, sels) == [kind |-> "Field", name |-> n, hasSelectionSet |-> TRUE, selections |-> sels]
Inline(sels) == [kind |-> "InlineFragment", name |-> "", hasSelectionSet |-> TRUE, selections |-> sels]
Spread(n) == [kind |-> "FragmentSpread", name |-> n, hasSelectionSet |-> FALSE, selections |-> <<>>]

\* rules?.[fieldName] is defined: the row exists and lists the field
IsListed(rs, fieldName, parentType) ==
    parentType \in DOMAIN rs /\ fieldName \in DOMAIN rs[parentType]

\* const calculateFieldComplexity = (fieldName, parentType) =>
\*     rules?.[fieldName] || 1       (undefined and 0 are both falsy)
calculateFieldComplexity(rs, fieldName, parentType) ==
    IF IsListed(rs, fieldName, parentType) /\ rs[parentType][fieldName] # 0
    THEN rs[parentType][fieldName]
    ELSE 1

RECURSIVE traverse(_, _, _)
RECURSIVE traverseRange(_, _, _, _, _)
RECURSIVE selectionComplexity(_, _, _)

\* mutant: the cost of a field's child selection is not added
selectionComplexityNoChildren(rs, selection, parentType) ==
    IF selection.kind = "Field"
    THEN calculateFieldComplexity(rs, selection.name, parentType)
    ELSE IF selection.kind = "InlineFragment"
    THEN traverse(rs, selection.selections, parentType)
    ELSE 0

\* The body of traverse's loop: what one selection adds to fieldComplexity.
\* A Field adds its weight and, if it has a selection set, the traversal of
\* its children under parentType = the field's own name; an InlineFragment
\* adds the traversal of its selections under the same parentType; any other
\* kind (FragmentSpread) adds nothing.
selectionComplexity(rs, selection, parentType) ==
    IF selection.kind = "Field"
    THEN calculateFieldComplexity(rs, selection.name, parentType)
         + (IF selection.hasSelectionSet
            THEN traverse(rs, selection.selections, selection.name)
            ELSE 0)
    ELSE IF selection.kind = "InlineFragment"
    THEN traverse(rs, selection.selections, parentType)
    ELSE 0

\* The loop's running sum over selections[lo..hi], split in halves so that
\* long selection lists evaluate in logarithmic depth.
traverseRange(rs, selections, parentType, lo, hi) ==
    IF lo > hi THEN 0
    ELSE IF lo = hi THEN selectionComplexity(rs, selections[lo], parentType)
    ELSE LET mid == (lo + hi) \div 2
         IN  traverseRange(rs, selections, parentType, lo, mid)
             + traverseRange(rs, selections, parentType, mid + 1, hi)

\* const traverse = (selections, parentType) => { for (const selection of selections) ... }
traverse(rs, selections, parentType) ==
    traverseRange(rs, selections, parentType, 1, Len(selections))

\* The outcome of a call: a returned number, or a thrown Error whose message
\* carries the computed complexity and the maximum.
Returned(c) == [called |-> TRUE, threw |-> FALSE, complexity |-> c, maximum |-> 0]
Threw(c, m) == [called |-> TRUE, threw |-> TRUE, complexity |-> c, maximum |-> m]
NotCalled   == [called |-> FALSE, threw |-> FALSE, complexity |-> 0, maximum |-> 0]

\* mutant: the ceiling itself is rejected (>= instead of >)
calculateComplexityGe(rs, i) ==
    LET complexity == traverse(rs, IF i.hasSelectionSet THEN i.selections ELSE <<>>,
                               i.parentType)
    IN  IF complexity >= maxComplexity
        THEN Threw(complexity, maxComplexity)
        ELSE Returned(complexity)

\* static calculateComplexity(info: GraphQLResolveInfo): number
calculateComplexity(rs, i) ==
    LET complexity == traverse(rs, IF i.hasSelectionSet THEN i.selections ELSE <<>>,
                               i.parentType)
    IN  IF complexity > maxComplexity
        THEN Threw(complexity, maxComplexity)
        ELSE Returned(complexity)

(***************************************************************************)
(* Inputs of calculateComplexity                                           *)
(***************************************************************************)
SeqsUpTo(S, n) == UNION {[1..k -> S] : k \in 0..n}

Repeat(x, n) == [k \in 1..n |-> x]

ChildSels == {<<Fld("id")>>, <<Fld("subjects")>>, <<Fld("c")>>,
              <<Fld("id"), Fld("subjects")>>}
TopNames == {"a", "b", "id", "subjects", "totalCount", "token"}
ParentNames == {"b", "employee", "employees"}
Level1 == {Fld(n) : n \in TopNames}
          \cup {FldSel(n, s) : n \in ParentNames, s \in ChildSels}
          \cup {Inline(s) : s \in ChildSels}
          \cup {Spread("EmployeeFields")}

\* Selections around the ceiling: maxComplexity aliased id fields (1 each
\* under both tables), one fewer, one more, and one more with a child.
AtCeiling == Repeat(Fld("id"), maxComplexity)
BigSelections == {Repeat(Fld("id"), maxComplexity - 1), AtCeiling, AtCeiling \o <<Fld("token")>>,
                  AtCeiling \o <<FldSel("employee", <<Fld("id")>>)>>}

\* info.parentType.name, info.fieldNodes[0].name.value, the named type of
\* info.returnType
Roots == {[parentType |-> "Root", fieldName |-> "self", returnType |-> "Root"],
          [parentType |-> "Query", fieldName |-> "employee", returnType |-> "Employee"],
          [parentType |-> "Query", fieldName |-> "employees", returnType |-> "EmployeePage"],
          [parentType |-> "Mutation", fieldName |-> "login", returnType |-> "LoginPayload"],
          [parentType |-> "Employee", fieldName |-> "manager", returnType |-> "Employee"]}

MkInfo(root, has, sels) ==
    [parentType |-> root.parentType, fieldName |-> root.fieldName,
     returnType |-> root.returnType, hasSelectionSet |-> has, selections |-> sels]

Infos == {MkInfo(r, TRUE, s) : r \in Roots, s \in SeqsUpTo(Level1, MaxSel) \ {<<>>}}
         \cup {MkInfo(r, FALSE, <<>>) : r \in Roots}
         \cup {MkInfo(r, TRUE, s) : r \in Roots, s \in BigSelections}

IdleInfo == MkInfo(CHOOSE r \in Roots : r.fieldName = "employee", FALSE, <<>>)

\* A resolver hands its info to QueryComplexityAnalyzer.calculateComplexity.
CalculateComplexity ==
    /\ ~costResult.called
    /\ costResult' = calculateComplexity(rules, info)
    /\ UNCHANGED <<info, rules>>

(***************************************************************************)
(* The clock                                                               *)
(***************************************************************************)
\* set(key, data, ttl = 300000)
defaultTtl == 300000

ClockTimes == (0..MaxSkew) \cup (defaultTtl..(defaultTtl + MaxSkew))

\* Time passes between two operations (Date.now() does not go back).
Advance(times) ==
    \E t \in times :
        /\ t > now
        /\ now' = t

(***************************************************************************)
(* GraphQLCache                                                            *)
(***************************************************************************)
\* Keys and patterns are strings, modelled as sequences of characters.
Includes(key, pattern) ==
    \E k \in 0..(Len(key) - Len(pattern)) :
        SubSeq(key, k + 1, k + Len(pattern)) = pattern

GqlKeys == {<<"e", "_", "1">>, <<"e", "_", "5">>}
GqlPatterns == {<<"e", "_">>, <<"1">>, <<"5">>, <<>>}
GqlData == {"v1", "v2"}
GqlTtls == {1, 2}

Null == "null"
NoEntry == [present |-> FALSE, data |-> Null, timestamp |-> 0, ttl |-> 0]
Entry(data, timestamp, ttl) ==
    [present |-> TRUE, data |-> data, timestamp |-> timestamp, ttl |-> ttl]

\* mutant: an entry expires as soon as its age reaches the ttl (>= for >)
gqlGetExpiresAtTtl(cache, key, t) ==
    LET cached == cache[key]
    IN  IF ~cached.present THEN [result |-> Null, cache |-> cache]
        ELSE IF t - cached.timestamp >= cached.ttl
        THEN [result |-> Null, cache |-> [cache EXCEPT ![key] = NoEntry]]
        ELSE [result |-> cached.data, cache |-> cache]

\* static get(key): the value returned and the cache afterwards
gqlGet(cache, key, t) ==
    LET cached == cache[key]
    IN  IF ~cached.present THEN [result |-> Null, cache |-> cache]
        ELSE IF t - cached.timestamp > cached.ttl
        THEN [result |-> Null, cache |-> [cache EXCEPT ![key] = NoEntry]]
        ELSE [result |-> cached.data, cache |-> cache]

\* static clear(pattern?): an absent or empty pattern is falsy and clears all
gqlClear(cache, hasPattern, pattern) ==
    IF hasPattern /\ pattern # <<>>
    THEN [k \in DOMAIN cache |-> IF Includes(k, pattern) THEN NoEntry ELSE cache[k]]
    ELSE [k \in DOMAIN cache |-> NoEntry]

NoGet == [op |-> "none", key |-> <<>>, at |-> 0, result |-> Null, had |-> FALSE]

EmptyGqlCache == [k \in GqlKeys |-> NoEntry]

\* mutant: set leaves an entry that is already there as it is
GqlSetWithKeepingFirst(key, data, ttl) ==
    /\ gqlCache' = IF gqlCache[key].present THEN gqlCache
                   ELSE [gqlCache EXCEPT ![key] = Entry(data, now, ttl)]
    /\ gqlWritten' = [gqlWritten EXCEPT ![key] = Entry(data, now, ttl)]
    /\ gqlLast' = [op |-> "set", key |-> key, at |-> now, result |-> Null,
                   had |-> gqlCache[key].present]
    /\ UNCHANGED now

\* GraphQLCache.set(key, data, ttl)
GqlSetWith(key, data, ttl) ==
    /\ gqlCache' = [gqlCache EXCEPT ![key] = Entry(data, now, ttl)]
    /\ gqlWritten' = [gqlWritten EXCEPT ![key] = Entry(data, now, ttl)]
    /\ gqlLast' = [op |-> "set", key |-> key, at |-> now, result |-> Null,
                   had |-> gqlCache[key].present]
    /\ UNCHANGED now

GqlSet == \E key \in GqlKeys, data \in GqlData, ttl \in GqlTtls : GqlSetWith(key, data, ttl)

\* GraphQLCache.set(key, data): ttl takes its default
GqlSetDefault == \E key \in GqlKeys, data \in GqlData : GqlSetWith(key, data, defaultTtl)

\* GraphQLCache.get(key)
GqlGet ==
    \E key \in GqlKeys :
        LET r == gqlGet(gqlCache, key, now)
        IN  /\ gqlCache' = r.cache
            /\ gqlLast' = [op |-> "get", key |-> key, at |-> now, result |-> r.result,
                           had |-> gqlCache[key].present]
            /\ UNCHANGED <<gqlWritten, now>>

\* GraphQLCache.clear(pattern) and GraphQLCache.clear()
GqlClear ==
    \E hasPattern \in BOOLEAN, pattern \in GqlPatterns :
        /\ hasPattern \/ pattern = <<>>
        /\ gqlCache' = gqlClear(gqlCache, hasPattern, pattern)
        /\ gqlWritten' = [k \in GqlKeys |->
                            IF gqlCache'[k].present \/ ~gqlCache[k].present
                            THEN gqlWritten[k] ELSE NoEntry]
        /\ gqlLast' = [op |-> "clear", key |-> pattern, at |-> now, result |-> Null,
                       had |-> hasPattern]
        /\ UNCHANGED now

(***************************************************************************)
(* The Employee table and the write resolvers (src/src/resolvers.ts)       *)
(***************************************************************************)
NullEmail == "<null>"
NoDate == <<>>
NoRow == [present |-> FALSE, id |-> 0, name |-> "", email |-> NullEmail,
          subjects |-> "", startDate |-> NoDate, role |-> "", password |-> ""]
Row(id, name, email, subjects, startDate, role, password) ==
    [present |-> TRUE, id |-> id, name |-> name, email |-> email,
     subjects |-> subjects, startDate |-> startDate, role |-> role,
     password |-> password]

Ids == 1..MaxId

\* JSON.stringify(subjects) of a list of subject names
stringifySubjects(subjects) ==
    CASE subjects = <<>> -> "[]"
      [] subjects = <<"math">> -> "[\"math\"]"
      [] subjects = <<"art">> -> "[\"art\"]"
      [] OTHER -> "[...]"

\* new Date(startDate * 1000): the stored time in milliseconds
DateOfSeconds(seconds) == <<seconds * 1000>>

\* The rows the table starts with: an administrator and an employee.
InitialDb ==
    [i \in Ids |->
        CASE i = 1 -> Row(1, "Ann", "a@x", "[\"math\"]", DateOfSeconds(1), "ADMIN", "hash0")
          [] i = 2 -> Row(2, "Bob", "b@x", "[]", NoDate, "EMPLOYEE", "hash0")
          [] OTHER -> NoRow]

FirstFreeId == Cardinality({i \in Ids : InitialDb[i].present}) + 1

\* context.user: the verified token's payload {id, role}, or undefined
NoUser == [present |-> FALSE, id |-> 0, role |-> ""]
Admin == [present |-> TRUE, id |-> 1, role |-> "ADMIN"]
Employee == [present |-> TRUE, id |-> 2, role |-> "EMPLOYEE"]
Users == {NoUser, Admin, Employee}

EmailTaken(table, email) ==
    email # NullEmail /\ \E i \in Ids : table[i].present /\ table[i].email = email

NoMutation == [op |-> "none", error |-> "none", id |-> 0, returned |-> "none"]
Ended(op, error, id, returned) ==
    [op |-> op, error |-> error, id |-> id, returned |-> returned]

\* a resolver that throws before it writes
Throws(op, error) ==
    /\ mutLast' = Ended(op, error, 0, "none")
    /\ UNCHANGED <<db, nextId, writes>>

\* mutant: every authenticated caller passes the guard
AdminGuardAnyRole(user) ==
    IF ~user.present THEN "AuthenticationError" ELSE "none"

\* if (!context.user) throw AuthenticationError; if (role !== 'ADMIN') throw ForbiddenError
AdminGuard(user) ==
    IF ~user.present THEN "AuthenticationError"
    ELSE IF user.role # "ADMIN" THEN "ForbiddenError"
    ELSE "none"

\* prisma.employee.create: the row gets the next id; a taken email violates
\* the unique index
Create(op, name, email, subjects, startDate, role, password) ==
    IF EmailTaken(db, email)
    THEN Throws(op, "PrismaError")
    ELSE /\ db' = [db EXCEPT ![nextId] =
                     Row(nextId, name, email, stringifySubjects(subjects),
                         startDate, role, password)]
         /\ nextId' = nextId + 1
         /\ writes' = writes + 1
         /\ mutLast' = Ended(op, "none", nextId, "row")

EmailOutcomes == {"sent", "notSent", "threw"}

\* mutant: an exception of the email service leaves the resolver
AddEmployeeMailOrFail(callers, names, emails, emailOutcomes) ==
    \E user \in callers, name \in names, email \in emails,
       emailOutcome \in emailOutcomes :
        /\ writes < MaxWrites /\ nextId <= MaxId
        /\ IF AdminGuard(user) # "none" THEN Throws("addEmployee", AdminGuard(user))
           ELSE IF name = "" \/ email = "" THEN Throws("addEmployee", "Error")
           ELSE IF emailOutcome = "threw" /\ ~EmailTaken(db, email)
           THEN /\ db' = [db EXCEPT ![nextId] =
                            Row(nextId, name, email, stringifySubjects(<<"math">>),
                                NoDate, "EMPLOYEE", "hash1")]
                /\ nextId' = nextId + 1
                /\ writes' = writes + 1
                /\ mutLast' = Ended("addEmployee", "Error", 0, "none")
           ELSE Create("addEmployee", name, email, <<"math">>, NoDate, "EMPLOYEE", "hash1")

\* Mutation.addEmployee, the outcomes of emailService.sendPasswordEmail among
\* emailOutcomes: the row is created first; the send is inside try/catch and
\* its result is only logged
AddEmployeeWith(callers, names, emails, emailOutcomes) ==
    \E user \in callers, name \in names, email \in emails,
       emailOutcome \in emailOutcomes :
        /\ writes < MaxWrites /\ nextId <= MaxId
        /\ IF AdminGuard(user) # "none" THEN Throws("addEmployee", AdminGuard(user))
           ELSE IF name = "" \/ email = "" THEN Throws("addEmployee", "Error")
           ELSE Create("addEmployee", name, email, <<"math">>, NoDate, "EMPLOYEE", "hash1")

\* Mutation.addEmployee
AddEmployee(callers, names, emails) == AddEmployeeWith(callers, names, emails, EmailOutcomes)

\* Mutation.register
Register(names, emails, roles) ==
    \E name \in names, email \in emails, role \in roles :
        /\ writes < MaxWrites /\ nextId <= MaxId
        /\ Create("register", name, email, <<>>, NoDate, role, "hash2")

\* The arguments of updateEmployee other than id: each field given or not.
NoPatch == [hasName |-> FALSE, name |-> "", hasSubjects |-> FALSE, subjects |-> <<>>,
            hasStartDate |-> FALSE, startDate |-> 0]
NamePatch == [NoPatch EXCEPT !.hasName = TRUE, !.name = "Zed"]
Patches == {NamePatch,
            [NoPatch EXCEPT !.hasSubjects = TRUE, !.subjects = <<"art">>],
            [NoPatch EXCEPT !.hasStartDate = TRUE, !.startDate = 2]}

\* data = {...rest}; if (subjects) data.subjects = ...; if (startDate) data.startDate = ...
Patched(row, patch) ==
    [row EXCEPT
       !.name = IF patch.hasName THEN patch.name ELSE @,
       !.subjects = IF patch.hasSubjects THEN stringifySubjects(patch.subjects) ELSE @,
       !.startDate = IF patch.hasStartDate /\ patch.startDate # 0
                     THEN DateOfSeconds(patch.startDate) ELSE @]

\* Mutation.updateEmployee
UpdateEmployee(callers, patches) ==
    \E user \in callers, id \in Ids, patch \in patches :
        /\ writes < MaxWrites
        /\ IF AdminGuard(user) # "none" THEN Throws("updateEmployee", AdminGuard(user))
           ELSE IF ~db[id].present THEN Throws("updateEmployee", "PrismaError")
           ELSE /\ db' = [db EXCEPT ![id] = Patched(@, patch)]
                /\ writes' = writes + 1
                /\ mutLast' = Ended("updateEmployee", "none", id, "row")
                /\ UNCHANGED nextId

\* Mutation.deleteEmployee
DeleteEmployee(callers) ==
    \E user \in callers, id \in Ids :
        /\ writes < MaxWrites
        /\ IF AdminGuard(user) # "none" THEN Throws("deleteEmployee", AdminGuard(user))
           ELSE IF ~db[id].present THEN Throws("deleteEmployee", "PrismaError")
           ELSE /\ db' = [db EXCEPT ![id] = NoRow]
                /\ writes' = writes + 1
                /\ mutLast' = Ended("deleteEmployee", "none", id, "true")
                /\ UNCHANGED nextId

\* Mutation.resendPasswordEmail: the new hash is stored before the email is sent
ResendPasswordEmailWith(callers, emailOutcomes) ==
    \E user \in callers, employeeId \in Ids, emailOutcome \in emailOutcomes :
        /\ writes < MaxWrites
        /\ IF AdminGuard(user) # "none"
           THEN Throws("resendPasswordEmail", AdminGuard(user))
           ELSE IF ~db[employeeId].present \/ db[employeeId].email = NullEmail
                   \/ db[employeeId].email = ""
           THEN Throws("resendPasswordEmail", "Error")
           ELSE /\ db' = [db EXCEPT ![employeeId].password = "hash3"]
                /\ writes' = writes + 1
                /\ mutLast' = Ended("resendPasswordEmail", "none", employeeId,
                                    IF emailOutcome = "sent" THEN "true" ELSE "false")
                /\ UNCHANGED nextId

ResendPasswordEmail(callers) == ResendPasswordEmailWith(callers, EmailOutcomes)

\* bcrypt.hash of the passwords callers type, and bcrypt.compare
PlainPasswords == {"pw0", "pw2", "guess"}
Hash(plain) ==
    CASE plain = "pw0" -> "hash0"
      [] plain = "pw2" -> "hash2"
      [] OTHER -> "hashOther"
Compare(plain, hashed) == Hash(plain) = hashed

\* what login returns or throws; token is what jwt.sign produced
NoToken == [signed |-> FALSE, expired |-> FALSE, payload |-> NoUser]
LoggedIn(error, id, token) == [op |-> "login", error |-> error, id |-> id, token |-> token]

\* Mutation.login(email, password): the row of the email, the password
\* compared with its hash, and a token signed over {id, role} of the row
login(table, email, password) ==
    LET found == {i \in Ids : table[i].present /\ table[i].email = email}
    IN  IF found = {} THEN LoggedIn("AuthenticationError", 0, NoToken)
        ELSE LET employee == table[CHOOSE i \in found : TRUE]
             IN  IF ~Compare(password, employee.password)
                 THEN LoggedIn("AuthenticationError", 0, NoToken)
                 ELSE LoggedIn("none", employee.id,
                               [signed |-> TRUE, expired |-> FALSE,
                                payload |-> [present |-> TRUE, id |-> employee.id,
                                             role |-> employee.role]])

(***************************************************************************)
(* EmployeeDataLoader: two DataLoaders behind a process-wide singleton     *)
(***************************************************************************)
LoadEmails == {"a@x"}

\* select: {id, name, ..., role}: every column but password
Selected(row) == IF row.present THEN [row EXCEPT !.password = ""] ELSE NoRow

\* the orders in which the store may return a set of rows
Orders(S) == {f \in [1..Cardinality(S) -> S] : \A i, j \in DOMAIN f : f[i] = f[j] => i = j}

\* prisma.employee.findMany({where: {id: {in: ids}}, select})
RowsWithIds(table, ids) ==
    {Selected(table[i]) : i \in {j \in Ids : table[j].present /\ \E k \in DOMAIN ids : ids[k] = j}}

\* prisma.employee.findMany({where: {email: {in: emails}}, select})
RowsWithEmails(table, emails) ==
    {Selected(table[i]) : i \in {j \in Ids : table[j].present
                                 /\ \E k \in DOMAIN emails : emails[k] = table[j].email}}

\* mutant: the rows are handed back in the order the store returned them
batchByIdStoreOrder(ids, employees) ==
    [k \in DOMAIN ids |-> IF k <= Len(employees) THEN employees[k] ELSE NoRow]

\* employeeMap = new Map(employees.map(emp => [emp.id, emp]));
\* return ids.map(id => employeeMap.get(id) || null)
batchById(ids, employees) ==
    [k \in DOMAIN ids |->
        IF \E j \in DOMAIN employees : employees[j].id = ids[k]
        THEN employees[CHOOSE j \in DOMAIN employees :
                          /\ employees[j].id = ids[k]
                          /\ \A l \in DOMAIN employees : employees[l].id = ids[k] => l <= j]
        ELSE NoRow]

\* employeeMap = new Map(employees.map(emp => [emp.email, emp]));
\* return emails.map(email => employeeMap.get(email) || null)
batchByEmail(emails, employees) ==
    [k \in DOMAIN emails |->
        IF \E j \in DOMAIN employees : employees[j].email = emails[k]
        THEN employees[CHOOSE j \in DOMAIN employees :
                          /\ employees[j].email = emails[k]
                          /\ \A l \in DOMAIN employees : employees[l].email = emails[k] => l <= j]
        ELSE NoRow]

\* A slot of a DataLoader's promise cache. state: "absent", "pending" (queued
\* in the current batch at position slot) or "resolved" (to value, a row or
\* NoRow for null, by a fetch made in request fetchedIn).
NoMemo == [state |-> "absent", slot |-> 0, value |-> NoRow, fetchedIn |-> 0]
PendingMemo(slot) == [state |-> "pending", slot |-> slot, value |-> NoRow, fetchedIn |-> 0]
ResolvedMemo(value, req) == [state |-> "resolved", slot |-> 0, value |-> value, fetchedIn |-> req]

\* mutant: load enqueues the key even when its promise is already cached
loadNoCache(memo, queue, key) ==
    [memo |-> [memo EXCEPT ![key] = PendingMemo(Len(queue) + 1)],
     queue |-> Append(queue, key),
     found |-> memo[key]]

\* DataLoader.load(key): a cached promise is returned as it is; otherwise the
\* key joins the current batch and its promise is cached
load(memo, queue, key) ==
    IF memo[key].state # "absent"
    THEN [memo |-> memo, queue |-> queue, found |-> memo[key]]
    ELSE [memo |-> [memo EXCEPT ![key] = PendingMemo(Len(queue) + 1)],
          queue |-> Append(queue, key),
          found |-> memo[key]]

\* what the loader state looks like when a new tick starts collecting
StartTick == phase = "dispatched"
CallsSoFar == IF StartTick THEN <<>> ELSE tickCalls

\* The record of one load call: the loader, the key, what the promise cache
\* held for the key, and the batch position the call's promise is bound to.
Call(loader, key, found, slot) ==
    [loader |-> loader, key |-> key, found |-> found.state, slot |-> slot,
     value |-> found.value, fetchedIn |-> found.fetchedIn]

\* The tick history describes the tick being collected or just dispatched:
\* a step outside a tick resets it.
ForgetTick == tickCalls' = <<>> /\ tickFetches' = <<>> /\ tickResults' = <<>>

\* static getInstance(prisma): a request obtains the loader; the first call
\* creates it, every later call returns the same instance
GetInstance ==
    /\ request < MaxRequests
    /\ phase # "collecting"
    /\ request' = request + 1
    /\ loaderCreated' = TRUE
    /\ ForgetTick
    /\ UNCHANGED <<idMemo, emailMemo, idQueue, emailQueue, phase, ticks>>

\* EmployeeDataLoader.load(id)
Load ==
    \E id \in Ids :
        LET r == load(idMemo, idQueue, id)
            slot == IF r.found.state = "absent" THEN Len(r.queue) ELSE r.found.slot
        IN  /\ loaderCreated
            /\ Len(CallsSoFar) < MaxCalls
            /\ StartTick => ticks < MaxTicks
            /\ ticks' = IF StartTick THEN ticks + 1 ELSE ticks
            /\ idMemo' = r.memo
            /\ idQueue' = r.queue
            /\ tickCalls' = Append(CallsSoFar, Call("id", id, r.found, slot))
            /\ phase' = "collecting"
            /\ tickFetches' = <<>>
            /\ tickResults' = <<>>
            /\ UNCHANGED <<loaderCreated, request, emailMemo, emailQueue>>

\* EmployeeDataLoader.loadByEmail(email)
LoadByEmail ==
    \E email \in LoadEmails :
        LET r == load(emailMemo, emailQueue, email)
            slot == IF r.found.state = "absent" THEN Len(r.queue) ELSE r.found.slot
        IN  /\ loaderCreated
            /\ Len(CallsSoFar) < MaxCalls
            /\ StartTick => ticks < MaxTicks
            /\ ticks' = IF StartTick THEN ticks + 1 ELSE ticks
            /\ emailMemo' = r.memo
            /\ emailQueue' = r.queue
            /\ tickCalls' = Append(CallsSoFar, Call("email", email, r.found, slot))
            /\ phase' = "collecting"
            /\ tickFetches' = <<>>
            /\ tickResults' = <<>>
            /\ UNCHANGED <<loaderCreated, request, idMemo, idQueue>>

\* The promise cache after a batch: on success every promise still cached as
\* pending is resolved to its position's value; on failure DataLoader clears
\* the batch's keys.
MemoAfter(memo, ok, values) ==
    [k \in DOMAIN memo |->
        IF memo[k].state # "pending" THEN memo[k]
        ELSE IF ok THEN ResolvedMemo(values[memo[k].slot], request)
        ELSE NoMemo]

\* One findMany call of a tick: the keys it asked for, whether the store
\* answered, and the rows in the order the store returned them.
Fetch(loader, keys, ok, rows) ==
    [loader |-> loader, keys |-> keys, ok |-> ok, rows |-> IF ok THEN rows ELSE <<>>]

\* What a load call's promise settles to.
Result(call, ok, values, current) ==
    IF call.found = "resolved"
    THEN [error |-> FALSE, value |-> call.value, fetchedIn |-> call.fetchedIn,
          current |-> current]
    ELSE IF ok
    THEN [error |-> FALSE, value |-> values[call.slot], fetchedIn |-> request,
          current |-> current]
    ELSE [error |-> TRUE, value |-> NoRow, fetchedIn |-> request, current |-> current]

\* the row the store holds for a loader's key
CurrentRow(loader, key) ==
    IF loader = "id" THEN Selected(db[key])
    ELSE IF \E i \in Ids : db[i].present /\ db[i].email = key
    THEN Selected(db[CHOOSE i \in Ids : db[i].present /\ db[i].email = key])
    ELSE NoRow

\* The tick ends: each loader with a non-empty batch calls its batch function
\* once; the store answers with the matching rows in any order, or is down
\* and fails the tick's fetches.
Dispatch ==
    \E storeUp \in BOOLEAN,
       idRows \in Orders(RowsWithIds(db, idQueue)),
       emailRows \in Orders(RowsWithEmails(db, emailQueue)) :
        LET idValues == batchById(idQueue, idRows)
            emailValues == batchByEmail(emailQueue, emailRows)
            idOk == storeUp
            emailOk == storeUp
        IN  /\ phase = "collecting"
            /\ (idQueue = <<>> /\ emailQueue = <<>>) => storeUp
            /\ idMemo' = MemoAfter(idMemo, idOk, idValues)
            /\ emailMemo' = MemoAfter(emailMemo, emailOk, emailValues)
            /\ tickFetches' =
                 (IF idQueue = <<>> THEN <<>> ELSE <<Fetch("id", idQueue, idOk, idRows)>>)
                 \o (IF emailQueue = <<>> THEN <<>>
                     ELSE <<Fetch("email", emailQueue, emailOk, emailRows)>>)
            /\ tickResults' =
                 [k \in DOMAIN tickCalls |->
                    IF tickCalls[k].loader = "id"
                    THEN Result(tickCalls[k], idOk, idValues,
                                CurrentRow("id", tickCalls[k].key))
                    ELSE Result(tickCalls[k], emailOk, emailValues,
                                CurrentRow("email", tickCalls[k].key))]
            /\ idQueue' = <<>>
            /\ emailQueue' = <<>>
            /\ phase' = "dispatched"
            /\ UNCHANGED <<loaderCreated, request, ticks, tickCalls>>

\* EmployeeDataLoader.clear(id?): if (id) employeeLoader.clear(id) else
\* employeeLoader.clearAll(); the email loader is not touched
LoaderClearWith(hasId, id) ==
    /\ loaderCreated
    /\ idMemo' = IF hasId /\ id # 0
                 THEN [idMemo EXCEPT ![id] = NoMemo]
                 ELSE [k \in DOMAIN idMemo |-> NoMemo]
    /\ tickCalls' = CallsSoFar
    /\ tickFetches' = <<>>
    /\ tickResults' = <<>>
    /\ UNCHANGED <<loaderCreated, request, emailMemo, idQueue, emailQueue, phase,
                   ticks>>

\* clear() and clear(id), id a number from 0 up
ClearArgs == {<<FALSE, 0>>} \cup {<<TRUE, id>> : id \in 0..MaxId}
LoaderClear == \E args \in ClearArgs : LoaderClearWith(args[1], args[2])

NoClear == [called |-> FALSE, hasId |-> FALSE, id |-> 0]
ClearOf(hasId, id) == [called |-> TRUE, hasId |-> hasId, id |-> id]

EmptyIdMemo == [k \in Ids |-> NoMemo]
EmptyEmailMemo == [k \in LoadEmails |-> NoMemo]

(***************************************************************************)
(* OptimizedQueryBuilder: the read facade with its five-minute cache, and  *)
(* QueryPerformanceMonitor, which times the calls that reach the store     *)
(***************************************************************************)
cacheTTL == 300000
FacadeTimes == {0, cacheTTL - 1, cacheTTL, cacheTTL + 1}

\* String(n), as characters
Digits == <<"0", "1", "2", "3", "4", "5", "6", "7", "8", "9">>
NumberChars(n) ==
    IF n < 10 THEN <<Digits[n + 1]>>
    ELSE <<Digits[(n \div 10) + 1], Digits[(n % 10) + 1]>>

\* cacheKey = `employee_${id}`
employeeKey(id) == <<"e", "m", "p", "l", "o", "y", "e", "e", "_">> \o NumberChars(id)

\* An options object is the sequence of its properties, in insertion order.
Property(name, value) == [name |-> name, value |-> value]
PropertyChars(name) ==
    CASE name = "page" -> <<"p", "a", "g", "e">>
      [] name = "pageSize" -> <<"p", "a", "g", "e", "S", "i", "z", "e">>
      [] name = "filter" -> <<"f", "i", "l", "t", "e", "r">>
      [] name = "includeCount" ->
            <<"i", "n", "c", "l", "u", "d", "e", "C", "o", "u", "n", "t">>
      [] OTHER -> <<"?">>

\* JSON.stringify of a property's value: a number (page, pageSize), a string
\* (filter, held as its characters) or a boolean (includeCount)
ValueChars(property) ==
    CASE property.name = "filter" -> <<"\"">> \o property.value \o <<"\"">>
      [] property.name = "includeCount" ->
            (IF property.value THEN <<"t", "r", "u", "e">>
             ELSE <<"f", "a", "l", "s", "e">>)
      [] OTHER -> NumberChars(property.value)

\* cacheKey = JSON.stringify(options): the properties in the order they were given
RECURSIVE propertiesJson(_)
propertiesJson(options) ==
    IF options = <<>> THEN <<>>
    ELSE LET n == Len(options)
             last == options[n]
         IN  (IF n > 1 THEN propertiesJson(SubSeq(options, 1, n - 1)) \o <<",">> ELSE <<>>)
             \o <<"\"">> \o PropertyChars(last.name) \o <<"\"", ":">>
             \o ValueChars(last)
optionsKey(options) == <<"{">> \o propertiesJson(options) \o <<"}">>

\* const { page = 1, pageSize = 10, ... } = options
Option(options, name, default) ==
    IF \E k \in DOMAIN options : options[k].name = name
    THEN options[CHOOSE k \in DOMAIN options :
                    /\ options[k].name = name
                    /\ \A l \in DOMAIN options : options[l].name = name => l <= k].value
    ELSE default

\* the ids and option objects the facade is called with
ReadIds == {1, 2}
ListOptions == {<<Property("pageSize", 2)>>}
QbKeys == {employeeKey(id) : id \in ReadIds} \cup {optionsKey(o) : o \in ListOptions}
QbPatterns == {NumberChars(1), <<"p", "a", "g", "e">>}

\* mutant: a text that does not parse is handed on as it is
parseSubjectsKeepingText(subjects) ==
    CASE subjects = "[]" -> <<>>
      [] subjects = "[\"math\"]" -> <<"math">>
      [] subjects = "[\"art\"]" -> <<"art">>
      [] OTHER -> <<subjects>>

\* JSON.parse(subjects), [] when it throws
parseSubjects(subjects) ==
    CASE subjects = "[]" -> <<>>
      [] subjects = "[\"math\"]" -> <<"math">>
      [] subjects = "[\"art\"]" -> <<"art">>
      [] OTHER -> <<>>

\* {...e, subjects: parseSubjects(e.subjects),
\*  startDate: e.startDate ? Math.floor(e.startDate.getTime() / 1000) : null}
Normalized(row) ==
    [row EXCEPT !.subjects = parseSubjects(@),
                !.startDate = IF @ # NoDate THEN <<@[1] \div 1000>> ELSE NoDate]

\* What a facade call returns: null, one employee, or a page of employees.
NullResult == [kind |-> "null", employees |-> <<>>, totalCount |-> 0]
EmployeeResult(row) == [kind |-> "employee", employees |-> <<row>>, totalCount |-> 0]
PageResult(rows, totalCount) ==
    [kind |-> "page", employees |-> rows, totalCount |-> totalCount]

\* findMany({where: {}, orderBy: {id: 'asc'}, select}): the selected columns
\* of every row, by ascending id
SortedById(table) ==
    LET S == {i \in DOMAIN table : table[i].present}
    IN  [k \in 1..Cardinality(S) |->
            Selected(table[CHOOSE i \in S : Cardinality({j \in S : j <= i}) = k])]

\* the characters of the names the rows carry, in lower case
LowerNameChars(name) ==
    CASE name = "Ann" -> <<"a", "n", "n">>
      [] name = "Bob" -> <<"b", "o", "b">>
      [] name = "Cy" -> <<"c", "y">>
      [] name = "Zed" -> <<"z", "e", "d">>
      [] name = "Reg" -> <<"r", "e", "g">>
      [] OTHER -> <<>>
LowerChar(c) ==
    CASE c = "A" -> "a" [] c = "B" -> "b" [] c = "N" -> "n" [] c = "Z" -> "z"
      [] OTHER -> c
LowerChars(chars) == [k \in DOMAIN chars |-> LowerChar(chars[k])]

\* where = filter ? {OR: [{name: {contains: filter, mode: 'insensitive'}},
\*                        {department: ...}, {position: ...}]} : {}
\* (the rows of the model have no department and no position)
Where(row, filter) ==
    filter = <<>> \/ Includes(LowerNameChars(row.name), LowerChars(filter))

\* mutant: every page is the first page
PageIgnoringSkip(rows, skip, take) ==
    SubSeq(rows, 1, IF take < Len(rows) THEN take ELSE Len(rows))

\* skip, take
Page(rows, skip, take) ==
    SubSeq(rows, skip + 1, IF skip + take < Len(rows) THEN skip + take ELSE Len(rows))

\* the result getEmployeesWithOptimization builds from the store's answer
employeesResult(table, options) ==
    LET page == Option(options, "page", 1)
        pageSize == Option(options, "pageSize", 10)
        filter == Option(options, "filter", <<>>)
        includeCount == Option(options, "includeCount", TRUE)
        skip == (page - 1) * pageSize
        matching == SelectSeq(SortedById(table), LAMBDA row : Where(row, filter))
        employees == Page(matching, skip, pageSize)
    IN  PageResult([k \in DOMAIN employees |-> Normalized(employees[k])],
                   IF includeCount THEN Len(matching) ELSE 0)

\* A slot of the cache. storedAfter is history: the number of successful
\* writes that had been made when the entry was stored.
NoQbEntry == [present |-> FALSE, data |-> NullResult, timestamp |-> 0, storedAfter |-> 0]
\* mutant: the entry keeps the rows but not the count
QbEntryNoCount(data, timestamp, storedAfter) ==
    [present |-> TRUE, data |-> [data EXCEPT !.totalCount = 0], timestamp |-> timestamp,
     storedAfter |-> storedAfter]

QbEntry(data, timestamp, storedAfter) ==
    [present |-> TRUE, data |-> data, timestamp |-> timestamp, storedAfter |-> storedAfter]
EmptyQbCache == [k \in QbKeys |-> NoQbEntry]

\* mutant: the lookup never finds a usable entry
IsFreshNever(cache, key, t) == cache[key].present /\ t - cache[key].timestamp < 0

\* cached && Date.now() - cached.timestamp < this.cacheTTL
IsFresh(cache, key, t) == cache[key].present /\ t - cache[key].timestamp < cacheTTL

\* A call waiting for the store, or a free slot.
Slots == 1..MaxReads
IdleRead == [pc |-> "idle", op |-> "none", key |-> <<>>, id |-> 0, options |-> <<>>,
             startedAt |-> 0]
Fetching(op, key, id, options, startedAt) ==
    [pc |-> "fetching", op |-> op, key |-> key, id |-> id, options |-> options,
     startedAt |-> startedAt]
NoReads == [slot \in Slots |-> IdleRead]

NoCall == [op |-> "none", key |-> <<>>, outcome |-> "none", data |-> NullResult,
           storedAfter |-> 0]
Served(op, key, outcome, data, storedAfter) ==
    [op |-> op, key |-> key, outcome |-> outcome, data |-> data,
     storedAfter |-> storedAfter]

NoSamples == [getEmployee |-> <<>>, getEmployees |-> <<>>]
\* the calls that have started a timer
Timed ==
    Len(queryTimes.getEmployee) + Len(queryTimes.getEmployees)
    + Cardinality({slot \in Slots : qbReads[slot].pc # "idle"})

\* mutant: a call that misses while a fetch for its key is in flight waits
\* for that fetch instead of starting its own
BeginSingleFlight(op, key, id, options) ==
    IF IsFresh(qbCache, key, now)
    THEN /\ qbLast' = Served(op, key, "hit", qbCache[key].data, qbCache[key].storedAfter)
         /\ UNCHANGED <<qbCache, qbReads, queryTimes>>
    ELSE IF \E slot \in Slots : qbReads[slot].pc = "fetching" /\ qbReads[slot].key = key
    THEN /\ qbLast' = Served(op, key, "joined", NullResult, 0)
         /\ UNCHANGED <<qbCache, qbReads, queryTimes>>
    ELSE /\ Timed < MaxSamples
         /\ \E slot \in Slots :
               /\ qbReads[slot].pc = "idle"
               /\ \A other \in Slots : other < slot => qbReads[other].pc # "idle"
               /\ qbReads' = [qbReads EXCEPT ![slot] = Fetching(op, key, id, options, now)]
         /\ qbLast' = NoCall
         /\ UNCHANGED <<qbCache, queryTimes>>

\* The part of a facade call before its await: a fresh entry is returned,
\* otherwise the timer is started and the store is asked.
Begin(op, key, id, options) ==
    IF IsFresh(qbCache, key, now)
    THEN /\ qbLast' = Served(op, key, "hit", qbCache[key].data, qbCache[key].storedAfter)
         /\ UNCHANGED <<qbCache, qbReads, queryTimes>>
    ELSE /\ Timed < MaxSamples
         /\ \E slot \in Slots :
               /\ qbReads[slot].pc = "idle"
               /\ \A other \in Slots : other < slot => qbReads[other].pc # "idle"
               /\ qbReads' = [qbReads EXCEPT ![slot] = Fetching(op, key, id, options, now)]
         /\ qbLast' = NoCall
         /\ UNCHANGED <<qbCache, queryTimes>>

\* mutant: the timer is never stopped
endQueryLost(read) == UNCHANGED queryTimes

\* finally { endQuery() }: recordQueryTime(queryName, duration)
endQuery(read) ==
    queryTimes' = [queryTimes EXCEPT ![read.op] = Append(@, now - read.startedAt)]

\* OptimizedQueryBuilder.getEmployeeWithOptimization(prisma, id), up to the await
GetEmployeeWithOptimization ==
    \E id \in ReadIds : Begin("getEmployee", employeeKey(id), id, <<>>)

\* mutant: a failed fetch is cached as "no such employee"
GetEmployeeResumesCachingFailure ==
    \E slot \in Slots, storeUp \in BOOLEAN :
        LET read == qbReads[slot]
            employee == Selected(db[read.id])
            result == EmployeeResult(Normalized(employee))
        IN  /\ read.pc = "fetching"
            /\ read.op = "getEmployee"
            /\ qbReads' = [qbReads EXCEPT ![slot] = IdleRead]
            /\ endQuery(read)
            /\ IF ~storeUp
               THEN /\ qbLast' = Served(read.op, read.key, "error", NullResult, writes)
                    /\ qbCache' = [qbCache EXCEPT ![read.key] = QbEntry(NullResult, now, writes)]
               ELSE IF ~employee.present
               THEN /\ qbLast' = Served(read.op, read.key, "null", NullResult, writes)
                    /\ UNCHANGED qbCache
               ELSE /\ qbCache' = [qbCache EXCEPT ![read.key] = QbEntry(result, now, writes)]
                    /\ qbLast' = Served(read.op, read.key, "fetched", result, writes)

\* ... and from the await on: findUnique answers or throws
GetEmployeeResumes ==
    \E slot \in Slots, storeUp \in BOOLEAN :
        LET read == qbReads[slot]
            employee == Selected(db[read.id])
            result == EmployeeResult(Normalized(employee))
        IN  /\ read.pc = "fetching"
            /\ read.op = "getEmployee"
            /\ qbReads' = [qbReads EXCEPT ![slot] = IdleRead]
            /\ endQuery(read)
            /\ IF ~storeUp
               THEN /\ qbLast' = Served(read.op, read.key, "error", NullResult, writes)
                    /\ UNCHANGED qbCache
               ELSE IF ~employee.present
               THEN /\ qbLast' = Served(read.op, read.key, "null", NullResult, writes)
                    /\ UNCHANGED qbCache
               ELSE /\ qbCache' = [qbCache EXCEPT ![read.key] = QbEntry(result, now, writes)]
                    /\ qbLast' = Served(read.op, read.key, "fetched", result, writes)

\* The await of findUnique seen in two steps: the store answers the query
\* (the row is read), and later the call's continuation runs.  readAfter is
\* history: the number of successful writes made when the row was read.
Answered(read, storeUp, employee, readAfter) ==
    [pc |-> "answered", op |-> read.op, key |-> read.key, id |-> read.id,
     options |-> read.options, startedAt |-> read.startedAt,
     storeUp |-> storeUp, employee |-> employee, readAfter |-> readAfter]

\* prisma.employee.findUnique answers (or fails) for a call that awaits it
FindUniqueAnswers ==
    \E slot \in Slots, storeUp \in BOOLEAN :
        LET read == qbReads[slot]
        IN  /\ read.pc = "fetching"
            /\ read.op = "getEmployee"
            /\ qbReads' = [qbReads EXCEPT
                              ![slot] = Answered(read, storeUp, Selected(db[read.id]), writes)]
            /\ qbLast' = NoCall
            /\ UNCHANGED <<qbCache, queryTimes>>

\* the rest of getEmployeeWithOptimization after the await: null for no row,
\* otherwise the result is built, stored under the key with the time of the
\* store, and returned; endQuery runs in every case
GetEmployeeContinues ==
    \E slot \in Slots :
        LET read == qbReads[slot]
            result == EmployeeResult(Normalized(read.employee))
        IN  /\ read.pc = "answered"
            /\ qbReads' = [qbReads EXCEPT ![slot] = IdleRead]
            /\ endQuery(read)
            /\ IF ~read.storeUp
               THEN /\ qbLast' = Served(read.op, read.key, "error", NullResult, read.readAfter)
                    /\ UNCHANGED qbCache
               ELSE IF ~read.employee.present
               THEN /\ qbLast' = Served(read.op, read.key, "null", NullResult, read.readAfter)
                    /\ UNCHANGED qbCache
               ELSE /\ qbCache' = [qbCache EXCEPT
                                      ![read.key] = QbEntry(result, now, read.readAfter)]
                    /\ qbLast' = Served(read.op, read.key, "fetched", result, read.readAfter)

\* OptimizedQueryBuilder.getEmployeesWithOptimization(prisma, options), up to the await
GetEmployeesWithOptimization ==
    \E options \in ListOptions : Begin("getEmployees", optionsKey(options), 0, options)

\* ... and from the await on: findMany and count answer, or one of them throws
GetEmployeesResumes ==
    \E slot \in Slots, storeUp \in BOOLEAN :
        LET read == qbReads[slot]
            result == employeesResult(db, read.options)
        IN  /\ read.pc = "fetching"
            /\ read.op = "getEmployees"
            /\ qbReads' = [qbReads EXCEPT ![slot] = IdleRead]
            /\ endQuery(read)
            /\ IF ~storeUp
               THEN /\ qbLast' = Served(read.op, read.key, "error", NullResult, writes)
                    /\ UNCHANGED qbCache
               ELSE /\ qbCache' = [qbCache EXCEPT ![read.key] = QbEntry(result, now, writes)]
                    /\ qbLast' = Served(read.op, read.key, "fetched", result, writes)

\* mutant: only the entry whose key is the pattern is removed
clearCacheWholeKey(cache, hasPattern, pattern) ==
    [k \in DOMAIN cache |->
        IF ~hasPattern \/ pattern = <<>> \/ k = pattern THEN NoQbEntry ELSE cache[k]]

\* OptimizedQueryBuilder.clearCache(pattern?)
clearCache(cache, hasPattern, pattern) ==
    [k \in DOMAIN cache |->
        IF ~hasPattern \/ pattern = <<>> \/ Includes(k, pattern) THEN NoQbEntry ELSE cache[k]]

ClearCacheWith(hasPattern, pattern) ==
    /\ qbCache' = clearCache(qbCache, hasPattern, pattern)
    /\ qbLast' = NoCall
    /\ UNCHANGED <<qbReads, queryTimes>>

ClearCache ==
    \E hasPattern \in BOOLEAN, pattern \in QbPatterns : ClearCacheWith(hasPattern, pattern)

\* clearCache() and clearCache(pattern), the empty string among the patterns
WipeArgs == {<<FALSE, <<>>>>} \cup {<<TRUE, pattern>> : pattern \in QbPatterns \cup {<<>>}}

\* clearCache with a record of the call: its pattern, whether one was given,
\* and (history) the keys whose entries it removed
ClearCacheRecorded ==
    \E args \in WipeArgs :
        /\ qbCache' = clearCache(qbCache, args[1], args[2])
        /\ qbLast' = [op |-> "clearCache", key |-> args[2],
                      outcome |-> IF args[1] THEN "pattern" ELSE "all",
                      data |-> NullResult, storedAfter |-> 0,
                      removed |-> {k \in QbKeys : qbCache[k].present /\ ~qbCache'[k].present}]
        /\ UNCHANGED <<qbReads, queryTimes>>

\* The miss path of getEmployeesWithOptimization as a function of the table
\* and the options.
NoList == [called |-> FALSE, key |-> <<>>, data |-> NullResult]
Listed(key, data) == [called |-> TRUE, key |-> key, data |-> data]

\* a table of twelve employees, and the same table with one row deleted
TwelveRows ==
    [i \in 1..12 |->
        Row(i, IF i % 3 = 1 THEN "Ann" ELSE IF i % 3 = 2 THEN "Bob" ELSE "Cy", NullEmail,
            IF i % 2 = 0 THEN "[]" ELSE "[\"math\"]",
            IF i % 4 = 0 THEN NoDate ELSE DateOfSeconds(i), "EMPLOYEE", "hash0")]
PageTables == {InitialDb, TwelveRows, [TwelveRows EXCEPT ![5] = NoRow]}

OptionChoices(name, values) == {<<>>} \cup {<<Property(name, v)>> : v \in values}
PageOptions ==
    {page \o pageSize \o filter \o includeCount :
        page \in OptionChoices("page", {1, 2}),
        pageSize \in OptionChoices("pageSize", {0, 1, 2, 10}),
        filter \in OptionChoices("filter", {<<>>, <<"n">>, <<"B">>, <<"q">>}),
        includeCount \in OptionChoices("includeCount", {TRUE, FALSE})}

\* getEmployeesWithOptimization(prisma, options) when the key is not cached
\* and the store answers
GetEmployeesMiss ==
    /\ ~listResult.called
    /\ listResult' = Listed(optionsKey(listOptions), employeesResult(db, listOptions))
    /\ UNCHANGED listOptions

\* the GraphQL requests on whose behalf the facade is called: a selection of
\* one field, and a selection whose cost is above the ceiling
RequestInfos ==
    LET root == CHOOSE r \in Roots : r.fieldName = "employee"
    IN  {MkInfo(root, TRUE, <<Fld("id")>>),
         MkInfo(root, TRUE, AtCeiling \o <<Fld("name")>>)}

(***************************************************************************)
(* GraphQLPerformanceMonitor and QueryPerformanceMonitor                   *)
(***************************************************************************)
OperationNames == {"getEmployee", "getEmployees"}
\* performance.now() at the calls after the first
MonitorTimes == {1, 2}

\* the callback startOperation / startQuery returns: it closes over the
\* monitor, the name and the start time
Timer(monitor, name, startTime) == [monitor |-> monitor, name |-> name, startTime |-> startTime]

\* GraphQLPerformanceMonitor.startOperation(operationName)
StartOperation ==
    \E name \in OperationNames :
        /\ Len(timers) < MaxTimers
        /\ timers' = Append(timers, Timer("graphql", name, now))

\* QueryPerformanceMonitor.startQuery(queryName)
StartQuery ==
    \E name \in OperationNames :
        /\ Len(timers) < MaxTimers
        /\ timers' = Append(timers, Timer("query", name, now))

\* mutant: only the latest sample of a name is kept
recordOperationTimeLatest(times, operationName, duration) ==
    [times EXCEPT ![operationName] = <<duration>>]

\* recordOperationTime(operationName, duration): the name's array is created
\* at its first sample, so a name without samples has no entry
recordOperationTime(times, operationName, duration) ==
    [times EXCEPT ![operationName] = Append(@, duration)]

\* recordQueryTime(queryName, duration)
recordQueryTime(times, queryName, duration) ==
    [times EXCEPT ![queryName] = Append(@, duration)]

\* history: one invocation of a callback
Stopped(timer, at) ==
    [timer |-> timer, monitor |-> timers[timer].monitor, name |-> timers[timer].name,
     duration |-> at - timers[timer].startTime]

\* mutant: a callback records a sample at its first invocation only
StopOnce ==
    \E timer \in DOMAIN timers :
        LET stopped == Stopped(timer, now)
            first == \A k \in DOMAIN stopLog : stopLog[k].timer # timer
        IN  /\ Len(stopLog) < MaxStops
            /\ stopLog' = Append(stopLog, stopped)
            /\ IF ~first THEN UNCHANGED <<operationTimes, queryTimes>>
               ELSE IF stopped.monitor = "graphql"
               THEN /\ operationTimes' =
                          recordOperationTime(operationTimes, stopped.name, stopped.duration)
                    /\ UNCHANGED queryTimes
               ELSE /\ queryTimes' = recordQueryTime(queryTimes, stopped.name, stopped.duration)
                    /\ UNCHANGED operationTimes

\* a callback is invoked: duration = performance.now() - startTime is recorded
\* under the name; nothing marks the callback as used
Stop ==
    \E timer \in DOMAIN timers :
        LET stopped == Stopped(timer, now)
        IN  /\ Len(stopLog) < MaxStops
            /\ stopLog' = Append(stopLog, stopped)
            /\ IF stopped.monitor = "graphql"
               THEN /\ operationTimes' =
                          recordOperationTime(operationTimes, stopped.name, stopped.duration)
                    /\ UNCHANGED queryTimes
               ELSE /\ queryTimes' = recordQueryTime(queryTimes, stopped.name, stopped.duration)
                    /\ UNCHANGED operationTimes

\* times.reduce((sum, time) => sum + time, 0)
RECURSIVE reduceSum(_)
reduceSum(times) == IF times = <<>> THEN 0 ELSE Head(times) + reduceSum(Tail(times))

\* Math.max(...times)
MathMax(times) == CHOOSE m \in {times[k] : k \in DOMAIN times} : \A k \in DOMAIN times : times[k] <= m

\* {avg, count: times.length, max}; avg is the quotient sum / times.length,
\* kept as its numerator and denominator
statsOf(times) ==
    [avg |-> [sum |-> reduceSum(times), over |-> Len(times)],
     count |-> Len(times),
     max |-> MathMax(times)]

\* GraphQLPerformanceMonitor.getOperationStats(): an entry per name in the map
getOperationStats(times) ==
    [name \in {n \in DOMAIN times : times[n] # <<>>} |-> statsOf(times[name])]

\* QueryPerformanceMonitor.getQueryStats()
getQueryStats(times) ==
    [name \in {n \in DOMAIN times : times[n] # <<>>} |-> statsOf(times[name])]

NoStats == [monitor |-> "none", stats |-> <<>>]

\* a call of getOperationStats
GetOperationStats ==
    statsLast' = [monitor |-> "graphql", stats |-> getOperationStats(operationTimes)]

\* a call of getQueryStats
GetQueryStats ==
    statsLast' = [monitor |-> "query", stats |-> getQueryStats(queryTimes)]

(***************************************************************************)
(* RequestMonitor (src/src/performance/monitoring.ts)                      *)
(***************************************************************************)
Endpoints == {"GET /health", "POST /graphql"}
\* private static resetInterval = 60000
resetInterval == 60000
\* if (times.length > 100) times.shift()
keptTimes == 100

NoCount == [present |-> FALSE, count |-> 0, lastReset |-> 0]
NoRequestCounts == [endpoint \in Endpoints |-> NoCount]
NoRequestTimes == [endpoint \in Endpoints |-> <<>>]

\* mutant: the list is cut when it has reached the limit
recordRequestCutEarly(counts, times, endpoint, duration, t) ==
    LET reset == ~counts[endpoint].present
                 \/ t - counts[endpoint].lastReset > resetInterval
        countData == IF reset THEN [present |-> TRUE, count |-> 0, lastReset |-> t]
                     ELSE counts[endpoint]
        pushed == Append(IF reset THEN <<>> ELSE times[endpoint], duration)
    IN  [counts |-> [counts EXCEPT ![endpoint] = [countData EXCEPT !.count = @ + 1]],
         times |-> [times EXCEPT ![endpoint] =
                        IF Len(pushed) >= keptTimes THEN Tail(pushed) ELSE pushed]]

\* RequestMonitor.recordRequest(endpoint, duration) at Date.now() = t: a
\* missing entry or one reset more than resetInterval ago is replaced by a new
\* one with an empty list; then count++, push, and shift beyond keptTimes
recordRequest(counts, times, endpoint, duration, t) ==
    LET reset == ~counts[endpoint].present
                 \/ t - counts[endpoint].lastReset > resetInterval
        countData == IF reset THEN [present |-> TRUE, count |-> 0, lastReset |-> t]
                     ELSE counts[endpoint]
        pushed == Append(IF reset THEN <<>> ELSE times[endpoint], duration)
    IN  [counts |-> [counts EXCEPT ![endpoint] = [countData EXCEPT !.count = @ + 1]],
         times |-> [times EXCEPT ![endpoint] =
                        IF Len(pushed) > keptTimes THEN Tail(pushed) ELSE pushed]]

\* history: one call of recordRequest
Recorded(endpoint, duration, at) == [endpoint |-> endpoint, duration |-> duration, at |-> at]

\* the durations of the calls made from now on
RequestDurations == {200, 300}
\* the calls made so far with one of them
NewCalls == Cardinality({k \in DOMAIN requestLog : requestLog[k].duration \in RequestDurations})

\* a request ends and the middleware records it
RecordRequest ==
    \E endpoint \in Endpoints, duration \in RequestDurations :
        LET after == recordRequest(requestCounts, requestTimes, endpoint, duration, now)
        IN  /\ NewCalls < MaxRecorded
            /\ requestCounts' = after.counts
            /\ requestTimes' = after.times
            /\ requestLog' = Append(requestLog, Recorded(endpoint, duration, now))

\* Date.now() at the requests: within the first minute, at its end, just
\* after it, and the same for the minute that starts then
RequestTimes == {1, resetInterval, resetInterval + 1, 2 * resetInterval + 1,
                 2 * resetInterval + 2}

\* the monitor after n requests of the first endpoint at time 0, with
\* durations 1..n
AfterRequests(n) ==
    [counts |-> [NoRequestCounts EXCEPT
                    !["GET /health"] = [present |-> n > 0, count |-> n, lastReset |-> 0]],
     times |-> [NoRequestTimes EXCEPT
                    !["GET /health"] =
                        [k \in 1..(IF n > keptTimes THEN keptTimes ELSE n) |->
                            k + (IF n > keptTimes THEN n - keptTimes ELSE 0)]],
     log |-> [k \in 1..n |-> Recorded("GET /health", k, 0)]]
\* the numbers of requests the behaviours start after
StartCounts == {0, keptTimes - 1, keptTimes, keptTimes + 1}

(***************************************************************************)
(* Requests: the JWT middleware (src/src/index.ts) and the resolvers       *)
(***************************************************************************)
\* a token: whether it was signed with JWT_SECRET, whether it has expired,
\* and the payload {id, role} it carries
Token(signed, expired, payload) == [signed |-> signed, expired |-> expired, payload |-> payload]
\* a token signed with the secret can carry a role the table never holds
Guest == [present |-> TRUE, id |-> 3, role |-> "GUEST"]

\* the Authorization header: absent, or a scheme and a token
NoHeader == [present |-> FALSE, scheme |-> "", token |-> Token(FALSE, FALSE, NoUser)]
Header(scheme, token) == [present |-> TRUE, scheme |-> scheme, token |-> token]
Headers ==
    {NoHeader,
     Header("Bearer ", Token(TRUE, FALSE, Admin)),
     Header("Bearer ", Token(TRUE, FALSE, Employee)),
     Header("Bearer ", Token(TRUE, FALSE, Guest)),
     Header("Bearer ", Token(FALSE, FALSE, Admin)),
     Header("Bearer ", Token(TRUE, TRUE, Admin)),
     Header("Basic ", Token(TRUE, FALSE, Admin))}

\* jwt.verify(token, secret) returns the payload or throws
Verifies(token) == token.signed /\ ~token.expired

\* mutant: the payload of a Bearer token is taken without verifying the token
jwtMiddlewareUnverified(header) ==
    [user |-> IF header.present /\ header.scheme = "Bearer "
              THEN header.token.payload ELSE NoUser,
     next |-> TRUE]

\* the JWT middleware: req.user is set when the header starts with 'Bearer '
\* and the token verifies; next() is called in every case
jwtMiddleware(header) ==
    [user |-> IF header.present /\ header.scheme = "Bearer " /\ Verifies(header.token)
              THEN header.token.payload ELSE NoUser,
     next |-> TRUE]

\* history: the request that just ended: its header, the user the middleware
\* set, the operation and its id argument, the error thrown, the value
\* returned, and the number of store calls (prisma.employee.*) it made
NoRequest == [op |-> "none", header |-> NoHeader, user |-> NoUser, id |-> 0,
              error |-> "none", data |-> NullResult, storeCalls |-> 0]
Request(op, header, user, id, error, data, storeCalls) ==
    [op |-> op, header |-> header, user |-> user, id |-> id, error |-> error,
     data |-> data, storeCalls |-> storeCalls]

\* findMany({where: {}, orderBy: {id: 'asc'}}): every column of every row
RowsById(table) ==
    LET S == {i \in DOMAIN table : table[i].present}
    IN  [k \in 1..Cardinality(S) |->
            table[CHOOSE i \in S : Cardinality({j \in S : j <= i}) = k]]

QueryPageSizes == {1, 10}

\* Query.employees(page, pageSize), filter '' (where = {})
employees(table, user, page, pageSize) ==
    IF ~user.present
    THEN [error |-> "AuthenticationError", data |-> NullResult, storeCalls |-> 0]
    ELSE IF user.role = "EMPLOYEE"
    THEN LET employee == table[user.id]
         IN  [error |-> "none",
              data |-> IF ~employee.present THEN PageResult(<<>>, 0)
                       ELSE PageResult(<<Normalized(employee)>>, 1),
              storeCalls |-> 1]
    ELSE IF user.role # "ADMIN"
    THEN [error |-> "ForbiddenError", data |-> NullResult, storeCalls |-> 0]
    ELSE LET all == RowsById(table)
             rows == Page(all, (page - 1) * pageSize, pageSize)
         IN  [error |-> "none",
              data |-> PageResult([k \in DOMAIN rows |-> Normalized(rows[k])], Len(all)),
              storeCalls |-> 2]

\* mutant: an EMPLOYEE is shown the row it asks for
employeeOfAnyId(table, user, id) ==
    IF ~user.present
    THEN [error |-> "AuthenticationError", data |-> NullResult, storeCalls |-> 0]
    ELSE IF user.role # "EMPLOYEE" /\ user.role # "ADMIN" /\ user.id # id
    THEN [error |-> "ForbiddenError", data |-> NullResult, storeCalls |-> 0]
    ELSE [error |-> "none",
          data |-> IF ~table[id].present THEN NullResult
                   ELSE EmployeeResult(Normalized(table[id])),
          storeCalls |-> 1]

\* Query.employee(id)
employee(table, user, id) ==
    IF ~user.present
    THEN [error |-> "AuthenticationError", data |-> NullResult, storeCalls |-> 0]
    ELSE IF user.role # "EMPLOYEE" /\ user.role # "ADMIN" /\ user.id # id
    THEN [error |-> "ForbiddenError", data |-> NullResult, storeCalls |-> 0]
    ELSE LET found == table[IF user.role = "EMPLOYEE" THEN user.id ELSE id]
         IN  [error |-> "none",
              data |-> IF ~found.present THEN NullResult
                       ELSE EmployeeResult(Normalized(found)),
              storeCalls |-> 1]

\* a request for Query.employees
QueryEmployees ==
    \E header \in Headers, pageSize \in QueryPageSizes :
        LET user == jwtMiddleware(header).user
            r == employees(db, user, 1, pageSize)
        IN  callLast' = Request("employees", header, user, 0, r.error, r.data, r.storeCalls)

\* a request for Query.employee
QueryEmployee ==
    \E header \in Headers, id \in Ids :
        LET user == jwtMiddleware(header).user
            r == employee(db, user, id)
        IN  callLast' = Request("employee", header, user, id, r.error, r.data, r.storeCalls)

\* the prisma.employee calls a mutation has made when it ends: the guards and
\* the argument checks come before the first call; resendPasswordEmail reads
\* the row before it updates it
storeCalls(ended) ==
    IF ended.error \in {"AuthenticationError", "ForbiddenError"} THEN 0
    ELSE IF ended.op = "addEmployee" /\ ended.error = "Error" THEN 0
    ELSE IF ended.op = "resendPasswordEmail" /\ ended.error = "none" THEN 2
    ELSE 1

\* a request for one of the mutations that ask for a token
Mutation ==
    \E header \in Headers :
        LET user == jwtMiddleware(header).user
        IN  /\ \/ AddEmployee({user}, {"Cy"}, {"c@x"})
               \/ UpdateEmployee({user}, {NamePatch})
               \/ DeleteEmployee({user})
               \/ ResendPasswordEmail({user})
            /\ callLast' = Request(mutLast'.op, header, user, mutLast'.id, mutLast'.error,
                                   NullResult, storeCalls(mutLast'))

(***************************************************************************)
(* Objects and references: what a caller and a cache share                 *)
(***************************************************************************)
\* A JavaScript object is reached through a reference; `data` in set(key, data),
\* `cached.data` and `result` are references, and an assignment to a property
\* is seen through every reference to the object.
Refs == 1..MaxObjects
Object(value) == [used |-> TRUE, value |-> value]
NoObjects == [ref \in Refs |-> [used |-> FALSE, value |-> NullResult]]
HasRoom == \E ref \in Refs : ~heap[ref].used
FreeRef == CHOOSE ref \in Refs : ~heap[ref].used /\ \A other \in Refs : other < ref => heap[other].used

\* the objects a caller builds to hand to GraphQLCache.set
ShareValues == {PageResult(<<>>, 0)}
\* the values a caller assigns to result.totalCount
ShareCounts == {7}
\* the times of the calls
ShareTimes == {cacheTTL}

\* the caller builds an object: const data = {...}
NewObject ==
    \E value \in ShareValues :
        /\ HasRoom
        /\ heap' = [heap EXCEPT ![FreeRef] = Object(value)]
        /\ held' = held \cup {FreeRef}

\* GraphQLCache.set(key, data): the entry holds the caller's reference
GqlSetShared ==
    /\ \E key \in GqlKeys, ref \in held : GqlSetWith(key, ref, defaultTtl)
    /\ UNCHANGED shareVars

\* GraphQLCache.get(key): a hit returns cached.data, the entry's reference
GqlGetShared ==
    /\ GqlGet
    /\ held' = IF gqlCache[gqlLast'.key].present /\ gqlCache'[gqlLast'.key].present
               THEN held \cup {gqlLast'.result}
               ELSE held
    /\ UNCHANGED heap

\* getEmployeesWithOptimization up to the await: a hit returns cached.data
GetEmployeesShared ==
    /\ GetEmployeesWithOptimization
    /\ held' = IF qbLast'.outcome = "hit" THEN held \cup {qbLast'.data} ELSE held
    /\ UNCHANGED heap

\* ... and from the await on: `result` is a new object; cache.set stores
\* {data: result, ...} and the call returns result, the same reference
GetEmployeesResumesShared ==
    \E slot \in Slots, storeUp \in BOOLEAN :
        LET read == qbReads[slot]
            result == FreeRef
        IN  /\ read.pc = "fetching"
            /\ read.op = "getEmployees"
            /\ qbReads' = [qbReads EXCEPT ![slot] = IdleRead]
            /\ endQuery(read)
            /\ IF ~storeUp
               THEN /\ qbLast' = Served(read.op, read.key, "error", NullResult, writes)
                    /\ UNCHANGED <<qbCache, shareVars>>
               ELSE /\ HasRoom
                    /\ heap' = [heap EXCEPT ![result] = Object(employeesResult(db, read.options))]
                    /\ qbCache' = [qbCache EXCEPT ![read.key] = QbEntry(result, now, writes)]
                    /\ qbLast' = Served(read.op, read.key, "fetched", result, writes)
                    /\ held' = held \cup {result}

\* the caller assigns to a property of an object it holds: data.totalCount = n
Mutate ==
    \E ref \in held, n \in ShareCounts :
        /\ heap[ref].value.totalCount # n
        /\ heap' = [heap EXCEPT ![ref].value.totalCount = n]
        /\ UNCHANGED held

\* The inputs of one call: any info of Infos, any table of RuleTables.
InitCost ==
    /\ info \in Infos
    /\ rules \in RuleTables
    /\ costResult = NotCalled
    /\ now = 0
    /\ gqlCache = EmptyGqlCache
    /\ gqlLast = NoGet
    /\ gqlWritten = EmptyGqlCache
    /\ db = InitialDb
    /\ nextId = FirstFreeId
    /\ writes = 0
    /\ mutLast = NoMutation
    /\ loaderCreated = FALSE
    /\ request = 0
    /\ idMemo = EmptyIdMemo
    /\ emailMemo = EmptyEmailMemo
    /\ idQueue = <<>>
    /\ emailQueue = <<>>
    /\ phase = "dispatched"
    /\ ticks = 0
    /\ tickCalls = <<>>
    /\ tickFetches = <<>>
    /\ tickResults = <<>>
    /\ clearLast = NoClear
    /\ qbCache = EmptyQbCache
    /\ qbReads = NoReads
    /\ qbLast = NoCall
    /\ queryTimes = NoSamples
    /\ wlog = <<>>
    /\ listOptions = <<>>
    /\ listResult = NoList
    /\ invalidated = {}
    /\ heap = NoObjects
    /\ held = {}
    /\ callLast = NoRequest
    /\ operationTimes = NoSamples
    /\ timers = <<>>
    /\ stopLog = <<>>
    /\ statsLast = NoStats
    /\ requestCounts = NoRequestCounts
    /\ requestTimes = NoRequestTimes
    /\ requestLog = <<>>

SpecCost == InitCost /\ [][CalculateComplexity /\ UNCHANGED <<now, gqlVars, dbVars, loaderVars, qbVars, listVars, invalidated, shareVars, accessVars, monitorVars, requestVars>>]_vars

NextCache ==
    \/ GqlSet /\ UNCHANGED <<costVars, dbVars, loaderVars, qbVars, listVars, invalidated, shareVars, accessVars, monitorVars, requestVars>>
    \/ GqlSetDefault /\ UNCHANGED <<costVars, dbVars, loaderVars, qbVars, listVars, invalidated, shareVars, accessVars, monitorVars, requestVars>>
    \/ GqlGet /\ UNCHANGED <<costVars, dbVars, loaderVars, qbVars, listVars, invalidated, shareVars, accessVars, monitorVars, requestVars>>
    \/ GqlClear /\ UNCHANGED <<costVars, dbVars, loaderVars, qbVars, listVars, invalidated, shareVars, accessVars, monitorVars, requestVars>>
    \/ Advance(ClockTimes) /\ gqlLast' = NoGet
          /\ UNCHANGED <<costVars, gqlCache, gqlWritten, dbVars, loaderVars, qbVars, listVars, invalidated, shareVars, accessVars, monitorVars, requestVars>>

InitCache ==
    /\ info = IdleInfo
    /\ rules = complexityRules
    /\ costResult = NotCalled
    /\ now = 0
    /\ gqlCache = EmptyGqlCache
    /\ gqlLast = NoGet
    /\ gqlWritten = EmptyGqlCache
    /\ db = InitialDb
    /\ nextId = FirstFreeId
    /\ writes = 0
    /\ mutLast = NoMutation
    /\ loaderCreated = FALSE
    /\ request = 0
    /\ idMemo = EmptyIdMemo
    /\ emailMemo = EmptyEmailMemo
    /\ idQueue = <<>>
    /\ emailQueue = <<>>
    /\ phase = "dispatched"
    /\ ticks = 0
    /\ tickCalls = <<>>
    /\ tickFetches = <<>>
    /\ tickResults = <<>>
    /\ clearLast = NoClear
    /\ qbCache = EmptyQbCache
    /\ qbReads = NoReads
    /\ qbLast = NoCall
    /\ queryTimes = NoSamples
    /\ wlog = <<>>
    /\ listOptions = <<>>
    /\ listResult = NoList
    /\ invalidated = {}
    /\ heap = NoObjects
    /\ held = {}
    /\ callLast = NoRequest
    /\ operationTimes = NoSamples
    /\ timers = <<>>
    /\ stopLog = <<>>
    /\ statsLast = NoStats
    /\ requestCounts = NoRequestCounts
    /\ requestTimes = NoRequestTimes
    /\ requestLog = <<>>

SpecCache == InitCache /\ [][NextCache]_vars

\* Between two ticks the administrator creates, changes or deletes a row.
Write ==
    /\ phase # "collecting"
    /\ \/ AddEmployee({Admin}, {"Cy"}, {"c@x"})
       \/ UpdateEmployee({Admin}, {NamePatch})
       \/ DeleteEmployee({Admin})

\* mutLast describes the step just taken: a step of another kind resets it.
ForgetMutation == mutLast' = NoMutation
restOfLoader == <<costVars, now, gqlVars, db, nextId, writes, qbVars, listVars, invalidated, shareVars, accessVars, monitorVars, requestVars>>

NextLoader ==
    \/ GetInstance /\ ForgetMutation /\ UNCHANGED <<restOfLoader, clearLast>>
    \/ Load /\ ForgetMutation /\ UNCHANGED <<restOfLoader, clearLast>>
    \/ LoadByEmail /\ ForgetMutation /\ UNCHANGED <<restOfLoader, clearLast>>
    \/ Dispatch /\ ForgetMutation /\ UNCHANGED <<restOfLoader, clearLast>>
    \/ LoaderClear /\ ForgetMutation /\ UNCHANGED <<restOfLoader, clearLast>>
    \/ Write /\ ForgetTick
             /\ UNCHANGED <<costVars, now, gqlVars, loaderCreated, request, idMemo,
                            emailMemo, idQueue, emailQueue, phase, ticks, clearLast, qbVars, listVars,
                            invalidated, shareVars, accessVars, monitorVars, requestVars>>

InitLoader ==
    /\ info = IdleInfo
    /\ rules = complexityRules
    /\ costResult = NotCalled
    /\ now = 0
    /\ gqlCache = EmptyGqlCache
    /\ gqlLast = NoGet
    /\ gqlWritten = EmptyGqlCache
    /\ db = InitialDb
    /\ nextId = FirstFreeId
    /\ writes = 0
    /\ mutLast = NoMutation
    /\ loaderCreated = FALSE
    /\ request = 0
    /\ idMemo = EmptyIdMemo
    /\ emailMemo = EmptyEmailMemo
    /\ idQueue = <<>>
    /\ emailQueue = <<>>
    /\ phase = "dispatched"
    /\ ticks = 0
    /\ tickCalls = <<>>
    /\ tickFetches = <<>>
    /\ tickResults = <<>>
    /\ clearLast = NoClear
    /\ qbCache = EmptyQbCache
    /\ qbReads = NoReads
    /\ qbLast = NoCall
    /\ queryTimes = NoSamples
    /\ wlog = <<>>
    /\ listOptions = <<>>
    /\ listResult = NoList
    /\ invalidated = {}
    /\ heap = NoObjects
    /\ held = {}
    /\ callLast = NoRequest
    /\ operationTimes = NoSamples
    /\ timers = <<>>
    /\ stopLog = <<>>
    /\ statsLast = NoStats
    /\ requestCounts = NoRequestCounts
    /\ requestTimes = NoRequestTimes
    /\ requestLog = <<>>

SpecLoader == InitLoader /\ [][NextLoader]_vars

\* The facade and the write resolvers, called by an administrator, run side
\* by side; no resolver calls the facade's clearCache.
store == <<db, nextId, writes>>
ForgetCall == qbLast' = NoCall
Logged == wlog' = IF mutLast'.error = "none" THEN Append(wlog, mutLast'.id) ELSE wlog
restOfFacade == <<costVars, gqlVars, loaderVars, listVars, invalidated, shareVars, accessVars, monitorVars, requestVars>>
Reads == ForgetMutation /\ UNCHANGED <<now, store, wlog, restOfFacade>>
Writes == Logged /\ ForgetCall /\ UNCHANGED <<now, qbCache, qbReads, queryTimes, restOfFacade>>

Next ==
    \/ GetEmployeeWithOptimization /\ Reads
    \/ GetEmployeeResumes /\ Reads
    \/ GetEmployeesWithOptimization /\ Reads
    \/ GetEmployeesResumes /\ Reads
    \/ ClearCache /\ Reads
    \/ AddEmployee({Admin}, {"Cy"}, {"c@x"}) /\ Writes
    \/ Register({"Reg"}, {NullEmail}, {"EMPLOYEE"}) /\ Writes
    \/ UpdateEmployee({Admin}, Patches) /\ Writes
    \/ DeleteEmployee({Admin}) /\ Writes
    \/ ResendPasswordEmail({Admin}) /\ Writes
    \/ Advance(FacadeTimes) /\ ForgetCall /\ ForgetMutation
          /\ UNCHANGED <<store, qbCache, qbReads, queryTimes, wlog, restOfFacade>>

Init ==
    /\ info = IdleInfo
    /\ rules = complexityRules
    /\ costResult = NotCalled
    /\ now = 0
    /\ gqlCache = EmptyGqlCache
    /\ gqlLast = NoGet
    /\ gqlWritten = EmptyGqlCache
    /\ db = InitialDb
    /\ nextId = FirstFreeId
    /\ writes = 0
    /\ mutLast = NoMutation
    /\ loaderCreated = FALSE
    /\ request = 0
    /\ idMemo = EmptyIdMemo
    /\ emailMemo = EmptyEmailMemo
    /\ idQueue = <<>>
    /\ emailQueue = <<>>
    /\ phase = "dispatched"
    /\ ticks = 0
    /\ tickCalls = <<>>
    /\ tickFetches = <<>>
    /\ tickResults = <<>>
    /\ clearLast = NoClear
    /\ qbCache = EmptyQbCache
    /\ qbReads = NoReads
    /\ qbLast = NoCall
    /\ queryTimes = NoSamples
    /\ wlog = <<>>
    /\ listOptions = <<>>
    /\ listResult = NoList
    /\ invalidated = {}
    /\ heap = NoObjects
    /\ held = {}
    /\ callLast = NoRequest
    /\ operationTimes = NoSamples
    /\ timers = <<>>
    /\ stopLog = <<>>
    /\ statsLast = NoStats
    /\ requestCounts = NoRequestCounts
    /\ requestTimes = NoRequestTimes
    /\ requestLog = <<>>

Spec == Init /\ [][Next]_vars

\* The facade serving one GraphQL request after the other, all with the same
\* selection: nothing on the way to the facade, and nothing in it, hands the
\* request's info to calculateComplexity.
NextFacade ==
    \/ GetEmployeeWithOptimization /\ Reads
    \/ GetEmployeeResumes /\ Reads
    \/ GetEmployeesWithOptimization /\ Reads
    \/ GetEmployeesResumes /\ Reads
    \/ ClearCache /\ Reads
    \/ Advance(FacadeTimes) /\ ForgetCall /\ ForgetMutation
          /\ UNCHANGED <<store, qbCache, qbReads, queryTimes, wlog, restOfFacade>>

\* the tables a run starts from: the second holds a row whose subjects text
\* is not JSON (the column is a free string)
FacadeTables == {InitialDb, [InitialDb EXCEPT ![2].subjects = "oops"]}

InitFacade ==
    /\ info \in RequestInfos
    /\ rules = complexityRules
    /\ costResult = NotCalled
    /\ now = 0
    /\ gqlCache = EmptyGqlCache
    /\ gqlLast = NoGet
    /\ gqlWritten = EmptyGqlCache
    /\ db \in FacadeTables
    /\ nextId = FirstFreeId
    /\ writes = 0
    /\ mutLast = NoMutation
    /\ loaderCreated = FALSE
    /\ request = 0
    /\ idMemo = EmptyIdMemo
    /\ emailMemo = EmptyEmailMemo
    /\ idQueue = <<>>
    /\ emailQueue = <<>>
    /\ phase = "dispatched"
    /\ ticks = 0
    /\ tickCalls = <<>>
    /\ tickFetches = <<>>
    /\ tickResults = <<>>
    /\ clearLast = NoClear
    /\ qbCache = EmptyQbCache
    /\ qbReads = NoReads
    /\ qbLast = NoCall
    /\ queryTimes = NoSamples
    /\ wlog = <<>>
    /\ listOptions = <<>>
    /\ listResult = NoList
    /\ invalidated = {}
    /\ heap = NoObjects
    /\ held = {}
    /\ callLast = NoRequest
    /\ operationTimes = NoSamples
    /\ timers = <<>>
    /\ stopLog = <<>>
    /\ statsLast = NoStats
    /\ requestCounts = NoRequestCounts
    /\ requestTimes = NoRequestTimes
    /\ requestLog = <<>>

SpecFacade == InitFacade /\ [][NextFacade]_vars

\* The inputs of one list query: a table of PageTables, options of PageOptions.
InitPage ==
    /\ info = IdleInfo
    /\ rules = complexityRules
    /\ costResult = NotCalled
    /\ now = 0
    /\ gqlCache = EmptyGqlCache
    /\ gqlLast = NoGet
    /\ gqlWritten = EmptyGqlCache
    /\ db \in PageTables
    /\ nextId = FirstFreeId
    /\ writes = 0
    /\ mutLast = NoMutation
    /\ loaderCreated = FALSE
    /\ request = 0
    /\ idMemo = EmptyIdMemo
    /\ emailMemo = EmptyEmailMemo
    /\ idQueue = <<>>
    /\ emailQueue = <<>>
    /\ phase = "dispatched"
    /\ ticks = 0
    /\ tickCalls = <<>>
    /\ tickFetches = <<>>
    /\ tickResults = <<>>
    /\ clearLast = NoClear
    /\ qbCache = EmptyQbCache
    /\ qbReads = NoReads
    /\ qbLast = NoCall
    /\ queryTimes = NoSamples
    /\ wlog = <<>>
    /\ listOptions \in PageOptions
    /\ listResult = NoList
    /\ invalidated = {}
    /\ heap = NoObjects
    /\ held = {}
    /\ callLast = NoRequest
    /\ operationTimes = NoSamples
    /\ timers = <<>>
    /\ stopLog = <<>>
    /\ statsLast = NoStats
    /\ requestCounts = NoRequestCounts
    /\ requestTimes = NoRequestTimes
    /\ requestLog = <<>>

SpecPage ==
    InitPage /\ [][GetEmployeesMiss
                   /\ UNCHANGED <<costVars, now, gqlVars, dbVars, loaderVars, qbVars,
                                   invalidated, shareVars, accessVars, monitorVars, requestVars>>]_vars

\* The facade next to updateEmployee and a caller that invalidates by id:
\* clearCache(String(id)) for the id of an employee.
KeysContaining(pattern) == {k \in QbKeys : Includes(k, pattern)}
\* the key of the facade call that begins in this step, if one does
BegunKeys ==
    {k \in QbKeys :
        \/ qbLast'.outcome = "hit" /\ qbLast'.key = k
        \/ \E slot \in Slots : /\ qbReads[slot].pc = "idle"
                               /\ qbReads'[slot].pc = "fetching"
                               /\ qbReads'[slot].key = k}
Asked == invalidated' = invalidated \ BegunKeys
restOfInvalidate == <<costVars, gqlVars, loaderVars, listVars, shareVars, accessVars, monitorVars, requestVars>>
ReadsTracked == ForgetMutation /\ UNCHANGED <<now, store, wlog, restOfInvalidate>>

NextInvalidate ==
    \/ GetEmployeeWithOptimization /\ Asked /\ ReadsTracked
    \/ GetEmployeeResumes /\ UNCHANGED invalidated /\ ReadsTracked
    \/ GetEmployeesWithOptimization /\ Asked /\ ReadsTracked
    \/ GetEmployeesResumes /\ UNCHANGED invalidated /\ ReadsTracked
    \/ \E id \in ReadIds :
          /\ ClearCacheWith(TRUE, NumberChars(id))
          /\ invalidated' = KeysContaining(NumberChars(id))
          /\ ReadsTracked
    \/ UpdateEmployee({Admin}, {NamePatch})
          /\ Logged /\ ForgetCall
          /\ UNCHANGED <<now, qbCache, qbReads, queryTimes, invalidated, restOfInvalidate>>
    \/ Advance(FacadeTimes) /\ ForgetCall /\ ForgetMutation
          /\ UNCHANGED <<store, qbCache, qbReads, queryTimes, wlog, invalidated,
                         restOfInvalidate>>

InitInvalidate ==
    /\ info = IdleInfo
    /\ rules = complexityRules
    /\ costResult = NotCalled
    /\ now = 0
    /\ gqlCache = EmptyGqlCache
    /\ gqlLast = NoGet
    /\ gqlWritten = EmptyGqlCache
    /\ db = InitialDb
    /\ nextId = FirstFreeId
    /\ writes = 0
    /\ mutLast = NoMutation
    /\ loaderCreated = FALSE
    /\ request = 0
    /\ idMemo = EmptyIdMemo
    /\ emailMemo = EmptyEmailMemo
    /\ idQueue = <<>>
    /\ emailQueue = <<>>
    /\ phase = "dispatched"
    /\ ticks = 0
    /\ tickCalls = <<>>
    /\ tickFetches = <<>>
    /\ tickResults = <<>>
    /\ clearLast = NoClear
    /\ qbCache = EmptyQbCache
    /\ qbReads = NoReads
    /\ qbLast = NoCall
    /\ queryTimes = NoSamples
    /\ wlog = <<>>
    /\ listOptions = <<>>
    /\ listResult = NoList
    /\ invalidated = {}
    /\ heap = NoObjects
    /\ held = {}
    /\ callLast = NoRequest
    /\ operationTimes = NoSamples
    /\ timers = <<>>
    /\ stopLog = <<>>
    /\ statsLast = NoStats
    /\ requestCounts = NoRequestCounts
    /\ requestTimes = NoRequestTimes
    /\ requestLog = <<>>

SpecInvalidate == InitInvalidate /\ [][NextInvalidate]_vars

\* ---- the two caches, with values as references to objects ----
restOfShare == <<costVars, dbVars, loaderVars, listVars, invalidated, accessVars, monitorVars, requestVars>>

NextShare ==
    \/ NewObject /\ UNCHANGED <<now, gqlVars, qbVars, restOfShare>>
    \/ GqlSetShared /\ UNCHANGED <<qbVars, restOfShare>>
    \/ GqlGetShared /\ UNCHANGED <<qbVars, restOfShare>>
    \/ GetEmployeesShared /\ UNCHANGED <<now, gqlVars, wlog, restOfShare>>
    \/ GetEmployeesResumesShared /\ UNCHANGED <<now, gqlVars, wlog, restOfShare>>
    \/ Mutate /\ UNCHANGED <<now, gqlVars, qbVars, restOfShare>>
    \/ Advance(ShareTimes) /\ UNCHANGED <<gqlVars, qbVars, shareVars, restOfShare>>

InitShare ==
    /\ info = IdleInfo
    /\ rules = complexityRules
    /\ costResult = NotCalled
    /\ now = 0
    /\ gqlCache = EmptyGqlCache
    /\ gqlLast = NoGet
    /\ gqlWritten = EmptyGqlCache
    /\ db = InitialDb
    /\ nextId = FirstFreeId
    /\ writes = 0
    /\ mutLast = NoMutation
    /\ loaderCreated = FALSE
    /\ request = 0
    /\ idMemo = EmptyIdMemo
    /\ emailMemo = EmptyEmailMemo
    /\ idQueue = <<>>
    /\ emailQueue = <<>>
    /\ phase = "dispatched"
    /\ ticks = 0
    /\ tickCalls = <<>>
    /\ tickFetches = <<>>
    /\ tickResults = <<>>
    /\ clearLast = NoClear
    /\ qbCache = EmptyQbCache
    /\ qbReads = NoReads
    /\ qbLast = NoCall
    /\ queryTimes = NoSamples
    /\ wlog = <<>>
    /\ listOptions = <<>>
    /\ listResult = NoList
    /\ invalidated = {}
    /\ heap = NoObjects
    /\ held = {}
    /\ callLast = NoRequest
    /\ operationTimes = NoSamples
    /\ timers = <<>>
    /\ stopLog = <<>>
    /\ statsLast = NoStats
    /\ requestCounts = NoRequestCounts
    /\ requestTimes = NoRequestTimes
    /\ requestLog = <<>>

SpecShare == InitShare /\ [][NextShare]_vars

\* ---- the loader and its clear calls ----
NextClear ==
    \/ GetInstance /\ clearLast' = NoClear /\ UNCHANGED <<restOfLoader, mutLast>>
    \/ Load /\ clearLast' = NoClear /\ UNCHANGED <<restOfLoader, mutLast>>
    \/ LoadByEmail /\ clearLast' = NoClear /\ UNCHANGED <<restOfLoader, mutLast>>
    \/ Dispatch /\ clearLast' = NoClear /\ UNCHANGED <<restOfLoader, mutLast>>
    \/ \E args \in ClearArgs :
          /\ LoaderClearWith(args[1], args[2])
          /\ clearLast' = ClearOf(args[1], args[2])
          /\ UNCHANGED <<restOfLoader, mutLast>>

SpecClear == InitLoader /\ [][NextClear]_vars

\* ---- requests: the middleware, the queries and the guarded mutations ----
restOfAccess == <<costVars, now, gqlVars, loaderVars, qbVars, listVars, invalidated, shareVars,
                  monitorVars, requestVars>>

NextAccess ==
    \/ QueryEmployees /\ ForgetMutation /\ UNCHANGED <<store, restOfAccess>>
    \/ QueryEmployee /\ ForgetMutation /\ UNCHANGED <<store, restOfAccess>>
    \/ Mutation /\ UNCHANGED restOfAccess

InitAccess ==
    /\ info = IdleInfo
    /\ rules = complexityRules
    /\ costResult = NotCalled
    /\ now = 0
    /\ gqlCache = EmptyGqlCache
    /\ gqlLast = NoGet
    /\ gqlWritten = EmptyGqlCache
    /\ db = InitialDb
    /\ nextId = FirstFreeId
    /\ writes = 0
    /\ mutLast = NoMutation
    /\ loaderCreated = FALSE
    /\ request = 0
    /\ idMemo = EmptyIdMemo
    /\ emailMemo = EmptyEmailMemo
    /\ idQueue = <<>>
    /\ emailQueue = <<>>
    /\ phase = "dispatched"
    /\ ticks = 0
    /\ tickCalls = <<>>
    /\ tickFetches = <<>>
    /\ tickResults = <<>>
    /\ clearLast = NoClear
    /\ qbCache = EmptyQbCache
    /\ qbReads = NoReads
    /\ qbLast = NoCall
    /\ queryTimes = NoSamples
    /\ wlog = <<>>
    /\ listOptions = <<>>
    /\ listResult = NoList
    /\ invalidated = {}
    /\ heap = NoObjects
    /\ held = {}
    /\ callLast = NoRequest
    /\ operationTimes = NoSamples
    /\ timers = <<>>
    /\ stopLog = <<>>
    /\ statsLast = NoStats
    /\ requestCounts = NoRequestCounts
    /\ requestTimes = NoRequestTimes
    /\ requestLog = <<>>

SpecAccess == InitAccess /\ [][NextAccess]_vars

\* ---- the two caches and their clear operations ----
restOfWipe == <<costVars, loaderVars, listVars, invalidated, shareVars, accessVars, monitorVars, requestVars>>
FacadeStep == ForgetMutation /\ UNCHANGED <<now, store, wlog, gqlVars, restOfWipe>>

NextWipe ==
    \/ GqlSetDefault /\ UNCHANGED <<dbVars, qbVars, restOfWipe>>
    \/ GqlClear /\ UNCHANGED <<dbVars, qbVars, restOfWipe>>
    \/ GetEmployeeWithOptimization /\ FacadeStep
    \/ GetEmployeeResumes /\ FacadeStep
    \/ GetEmployeesWithOptimization /\ FacadeStep
    \/ GetEmployeesResumes /\ FacadeStep
    \/ ClearCacheRecorded /\ FacadeStep

InitWipe ==
    /\ info = IdleInfo
    /\ rules = complexityRules
    /\ costResult = NotCalled
    /\ now = 0
    /\ gqlCache = EmptyGqlCache
    /\ gqlLast = NoGet
    /\ gqlWritten = EmptyGqlCache
    /\ db = InitialDb
    /\ nextId = FirstFreeId
    /\ writes = 0
    /\ mutLast = NoMutation
    /\ loaderCreated = FALSE
    /\ request = 0
    /\ idMemo = EmptyIdMemo
    /\ emailMemo = EmptyEmailMemo
    /\ idQueue = <<>>
    /\ emailQueue = <<>>
    /\ phase = "dispatched"
    /\ ticks = 0
    /\ tickCalls = <<>>
    /\ tickFetches = <<>>
    /\ tickResults = <<>>
    /\ clearLast = NoClear
    /\ qbCache = EmptyQbCache
    /\ qbReads = NoReads
    /\ qbLast = NoCall
    /\ queryTimes = NoSamples
    /\ wlog = <<>>
    /\ listOptions = <<>>
    /\ listResult = NoList
    /\ invalidated = {}
    /\ heap = NoObjects
    /\ held = {}
    /\ callLast = NoRequest
    /\ operationTimes = NoSamples
    /\ timers = <<>>
    /\ stopLog = <<>>
    /\ statsLast = NoStats
    /\ requestCounts = NoRequestCounts
    /\ requestTimes = NoRequestTimes
    /\ requestLog = <<>>

SpecWipe == InitWipe /\ [][NextWipe]_vars

\* ---- the two performance monitors ----
restOfMonitor == <<costVars, gqlVars, dbVars, loaderVars, qbCache, qbReads, qbLast, wlog,
                   listVars, invalidated, shareVars, accessVars, requestVars>>
ForgetStats == statsLast' = NoStats

NextMonitor ==
    \/ StartOperation /\ ForgetStats
          /\ UNCHANGED <<now, operationTimes, queryTimes, stopLog, restOfMonitor>>
    \/ StartQuery /\ ForgetStats
          /\ UNCHANGED <<now, operationTimes, queryTimes, stopLog, restOfMonitor>>
    \/ Stop /\ ForgetStats /\ UNCHANGED <<now, timers, restOfMonitor>>
    \/ GetOperationStats
          /\ UNCHANGED <<now, operationTimes, queryTimes, timers, stopLog, restOfMonitor>>
    \/ GetQueryStats
          /\ UNCHANGED <<now, operationTimes, queryTimes, timers, stopLog, restOfMonitor>>
    \/ Advance(MonitorTimes) /\ ForgetStats
          /\ UNCHANGED <<operationTimes, queryTimes, timers, stopLog, restOfMonitor>>

InitMonitor ==
    /\ info = IdleInfo
    /\ rules = complexityRules
    /\ costResult = NotCalled
    /\ now = 0
    /\ gqlCache = EmptyGqlCache
    /\ gqlLast = NoGet
    /\ gqlWritten = EmptyGqlCache
    /\ db = InitialDb
    /\ nextId = FirstFreeId
    /\ writes = 0
    /\ mutLast = NoMutation
    /\ loaderCreated = FALSE
    /\ request = 0
    /\ idMemo = EmptyIdMemo
    /\ emailMemo = EmptyEmailMemo
    /\ idQueue = <<>>
    /\ emailQueue = <<>>
    /\ phase = "dispatched"
    /\ ticks = 0
    /\ tickCalls = <<>>
    /\ tickFetches = <<>>
    /\ tickResults = <<>>
    /\ clearLast = NoClear
    /\ qbCache = EmptyQbCache
    /\ qbReads = NoReads
    /\ qbLast = NoCall
    /\ queryTimes = NoSamples
    /\ wlog = <<>>
    /\ listOptions = <<>>
    /\ listResult = NoList
    /\ invalidated = {}
    /\ heap = NoObjects
    /\ held = {}
    /\ callLast = NoRequest
    /\ operationTimes = NoSamples
    /\ timers = <<>>
    /\ stopLog = <<>>
    /\ statsLast = NoStats
    /\ requestCounts = NoRequestCounts
    /\ requestTimes = NoRequestTimes
    /\ requestLog = <<>>

SpecMonitor == InitMonitor /\ [][NextMonitor]_vars

\* ---- speculative calls of the analyzer between cache and monitor calls ----
\* the selections handed to the speculative calls: within the ceiling, with a
\* nested selection, and beyond the ceiling (the call throws)
SpeculativeInfos ==
    {MkInfo(r, TRUE, s) :
        r \in {x \in Roots : x.fieldName = "employees"},
        s \in {<<Fld("id")>>, <<FldSel("subjects", <<Fld("a")>>), Fld("totalCount")>>,
               AtCeiling \o <<Fld("token")>>}}

\* mutant: the call notes the selection's cost in the weight table
CalculateComplexityNoting ==
    \E i \in SpeculativeInfos :
        /\ info' = i
        /\ costResult' = calculateComplexity(rules, i)
        /\ rules' = ExampleRules
        /\ UNCHANGED <<now, gqlVars, dbVars, loaderVars, qbVars, listVars, invalidated,
                       shareVars, accessVars, monitorVars, requestVars>>

\* QueryComplexityAnalyzer.calculateComplexity(info), called again and again:
\* it reads complexityRules and info, keeps its sum in locals, and returns or
\* throws; it assigns no field of any class
CalculateComplexityAgain ==
    \E i \in SpeculativeInfos :
        /\ info' = i
        /\ costResult' = calculateComplexity(rules, i)
        /\ UNCHANGED <<rules, now, gqlVars, dbVars, loaderVars, qbVars, listVars, invalidated,
                       shareVars, accessVars, monitorVars, requestVars>>

restOfPure == <<dbVars, loaderVars, qbVars, listVars, invalidated, shareVars, accessVars,
                requestVars>>

NextPure ==
    \/ CalculateComplexityAgain
    \/ GqlSetDefault /\ UNCHANGED <<costVars, monitorVars, restOfPure>>
    \/ StartOperation /\ timers = <<>> /\ ForgetStats
          /\ UNCHANGED <<costVars, now, gqlVars, operationTimes, stopLog, restOfPure>>
    \/ Stop /\ stopLog = <<>> /\ ForgetStats
          /\ UNCHANGED <<costVars, now, gqlVars, timers, restOfPure>>
    \/ Advance({1}) /\ ForgetStats /\ gqlLast' = NoGet
          /\ UNCHANGED <<costVars, gqlCache, gqlWritten, operationTimes, timers, stopLog,
                         restOfPure>>

InitPure ==
    /\ info = IdleInfo
    /\ rules \in RuleTables
    /\ costResult = NotCalled
    /\ now = 0
    /\ gqlCache = EmptyGqlCache
    /\ gqlLast = NoGet
    /\ gqlWritten = EmptyGqlCache
    /\ db = InitialDb
    /\ nextId = FirstFreeId
    /\ writes = 0
    /\ mutLast = NoMutation
    /\ loaderCreated = FALSE
    /\ request = 0
    /\ idMemo = EmptyIdMemo
    /\ emailMemo = EmptyEmailMemo
    /\ idQueue = <<>>
    /\ emailQueue = <<>>
    /\ phase = "dispatched"
    /\ ticks = 0
    /\ tickCalls = <<>>
    /\ tickFetches = <<>>
    /\ tickResults = <<>>
    /\ clearLast = NoClear
    /\ qbCache = EmptyQbCache
    /\ qbReads = NoReads
    /\ qbLast = NoCall
    /\ queryTimes = NoSamples
    /\ wlog = <<>>
    /\ listOptions = <<>>
    /\ listResult = NoList
    /\ invalidated = {}
    /\ heap = NoObjects
    /\ held = {}
    /\ callLast = NoRequest
    /\ operationTimes = NoSamples
    /\ timers = <<>>
    /\ stopLog = <<>>
    /\ statsLast = NoStats
    /\ requestCounts = NoRequestCounts
    /\ requestTimes = NoRequestTimes
    /\ requestLog = <<>>

SpecPure == InitPure /\ [][NextPure]_vars

\* ---- a facade read whose fetch and continuation are apart, a write, clearCache ----
restOfRace == <<costVars, gqlVars, loaderVars, listVars, shareVars, accessVars, monitorVars, requestVars>>
ReadsRace == ForgetMutation /\ UNCHANGED <<now, store, wlog, invalidated, restOfRace>>
\* the keys of the rows written so far that a clearCache(pattern) covers
ClearedAfterWrite(pattern) ==
    {employeeKey(id) : id \in {i \in ReadIds : /\ \E k \in DOMAIN wlog : wlog[k] = i
                                              /\ Includes(employeeKey(i), pattern)}}

NextRace ==
    \/ GetEmployeeWithOptimization /\ ReadsRace
    \/ FindUniqueAnswers /\ ReadsRace
    \/ GetEmployeeContinues /\ ReadsRace
    \/ \E id \in ReadIds :
          /\ ClearCacheWith(TRUE, NumberChars(id))
          /\ invalidated' = invalidated \cup ClearedAfterWrite(NumberChars(id))
          /\ ForgetMutation
          /\ UNCHANGED <<now, store, wlog, restOfRace>>
    \/ UpdateEmployee({Admin}, {NamePatch})
          /\ Logged /\ ForgetCall
          /\ invalidated' = (IF mutLast'.error = "none"
                             THEN invalidated \ {employeeKey(mutLast'.id)} ELSE invalidated)
          /\ UNCHANGED <<now, qbCache, qbReads, queryTimes, restOfRace>>
    \/ Advance({1}) /\ ForgetCall /\ ForgetMutation
          /\ UNCHANGED <<store, qbCache, qbReads, queryTimes, wlog, invalidated, restOfRace>>

InitRace ==
    /\ info = IdleInfo
    /\ rules = complexityRules
    /\ costResult = NotCalled
    /\ now = 0
    /\ gqlCache = EmptyGqlCache
    /\ gqlLast = NoGet
    /\ gqlWritten = EmptyGqlCache
    /\ db = InitialDb
    /\ nextId = FirstFreeId
    /\ writes = 0
    /\ mutLast = NoMutation
    /\ loaderCreated = FALSE
    /\ request = 0
    /\ idMemo = EmptyIdMemo
    /\ emailMemo = EmptyEmailMemo
    /\ idQueue = <<>>
    /\ emailQueue = <<>>
    /\ phase = "dispatched"
    /\ ticks = 0
    /\ tickCalls = <<>>
    /\ tickFetches = <<>>
    /\ tickResults = <<>>
    /\ clearLast = NoClear
    /\ qbCache = EmptyQbCache
    /\ qbReads = NoReads
    /\ qbLast = NoCall
    /\ queryTimes = NoSamples
    /\ wlog = <<>>
    /\ listOptions = <<>>
    /\ listResult = NoList
    /\ invalidated = {}
    /\ heap = NoObjects
    /\ held = {}
    /\ callLast = NoRequest
    /\ operationTimes = NoSamples
    /\ timers = <<>>
    /\ stopLog = <<>>
    /\ statsLast = NoStats
    /\ requestCounts = NoRequestCounts
    /\ requestTimes = NoRequestTimes
    /\ requestLog = <<>>

SpecRace == InitRace /\ [][NextRace]_vars

\* ---- register, login and the two mutations that send an email ----
\* history: a call of the accounts resolvers, the outcome of the email send it
\* reached ("none" if it reached none) and the token it returned
Account(op, user, id, error, mail, token) ==
    [op |-> op, header |-> NoHeader, user |-> user, id |-> id, error |-> error,
     mail |-> mail, token |-> token]
AdminHeader == Header("Bearer ", Token(TRUE, FALSE, Admin))
EmployeeHeader == Header("Bearer ", Token(TRUE, FALSE, Employee))
Mailed(mail) == IF mutLast'.error = "none" THEN mail ELSE "none"
restOfAccounts == <<costVars, now, gqlVars, loaderVars, qbVars, listVars, invalidated, shareVars,
                    monitorVars, requestVars>>

NextAccounts ==
    \/ /\ Register({"Cy", "Di"}, {"c@x", "d@x", "a@x"}, {"EMPLOYEE", "ADMIN"})
       /\ callLast' = Account("register", NoUser, mutLast'.id, mutLast'.error, "none", NoToken)
       /\ UNCHANGED restOfAccounts
    \/ \E email \in {"a@x", "b@x", "c@x", "d@x", "z@x"}, password \in PlainPasswords :
          LET returned == login(db, email, password)
          IN  /\ callLast' = Account("login", NoUser, returned.id, returned.error, "none",
                                     returned.token)
              /\ ForgetMutation
              /\ UNCHANGED <<store, restOfAccounts>>
    \/ \E header \in {NoHeader, AdminHeader}, mail \in EmailOutcomes :
          LET user == jwtMiddleware(header).user
          IN  /\ AddEmployeeWith({user}, {"Cy", "Di", ""}, {"c@x", "d@x", "a@x"}, {mail})
              /\ callLast' = Account("addEmployee", user, mutLast'.id, mutLast'.error,
                                     Mailed(mail), NoToken)
              /\ UNCHANGED restOfAccounts
    \/ \E header \in {NoHeader, AdminHeader}, mail \in EmailOutcomes :
          LET user == jwtMiddleware(header).user
          IN  /\ ResendPasswordEmailWith({user}, {mail})
              /\ callLast' = Account("resendPasswordEmail", user, mutLast'.id, mutLast'.error,
                                     Mailed(mail), NoToken)
              /\ UNCHANGED restOfAccounts
    \/ \E header \in {NoHeader, AdminHeader, EmployeeHeader} :
          LET user == jwtMiddleware(header).user
          IN  /\ UpdateEmployee({user}, {NamePatch}) \/ DeleteEmployee({user})
              /\ callLast' = Account(mutLast'.op, user, mutLast'.id, mutLast'.error, "none",
                                     NoToken)
              /\ UNCHANGED restOfAccounts

InitAccounts ==
    /\ info = IdleInfo
    /\ rules = complexityRules
    /\ costResult = NotCalled
    /\ now = 0
    /\ gqlCache = EmptyGqlCache
    /\ gqlLast = NoGet
    /\ gqlWritten = EmptyGqlCache
    /\ db = InitialDb
    /\ nextId = FirstFreeId
    /\ writes = 0
    /\ mutLast = NoMutation
    /\ loaderCreated = FALSE
    /\ request = 0
    /\ idMemo = EmptyIdMemo
    /\ emailMemo = EmptyEmailMemo
    /\ idQueue = <<>>
    /\ emailQueue = <<>>
    /\ phase = "dispatched"
    /\ ticks = 0
    /\ tickCalls = <<>>
    /\ tickFetches = <<>>
    /\ tickResults = <<>>
    /\ clearLast = NoClear
    /\ qbCache = EmptyQbCache
    /\ qbReads = NoReads
    /\ qbLast = NoCall
    /\ queryTimes = NoSamples
    /\ wlog = <<>>
    /\ listOptions = <<>>
    /\ listResult = NoList
    /\ invalidated = {}
    /\ heap = NoObjects
    /\ held = {}
    /\ callLast = NoRequest
    /\ operationTimes = NoSamples
    /\ timers = <<>>
    /\ stopLog = <<>>
    /\ statsLast = NoStats
    /\ requestCounts = NoRequestCounts
    /\ requestTimes = NoRequestTimes
    /\ requestLog = <<>>

SpecAccounts == InitAccounts /\ [][NextAccounts]_vars

\* ---- getEmployeeWithOptimization for ids with and without a row ----
\* the table as it starts, and with the second row gone
AbsentTables == {InitialDb, [InitialDb EXCEPT ![2] = NoRow]}

NextAbsent ==
    \/ GetEmployeeWithOptimization /\ Reads
    \/ GetEmployeeResumes /\ Reads
    \/ GetEmployeesWithOptimization /\ Reads
    \/ GetEmployeesResumes /\ Reads
    \/ DeleteEmployee({Admin}) /\ Writes
    \/ Advance(FacadeTimes) /\ ForgetCall /\ ForgetMutation
          /\ UNCHANGED <<store, qbCache, qbReads, queryTimes, wlog, restOfFacade>>

InitAbsent ==
    /\ info = IdleInfo
    /\ rules = complexityRules
    /\ costResult = NotCalled
    /\ now = 0
    /\ gqlCache = EmptyGqlCache
    /\ gqlLast = NoGet
    /\ gqlWritten = EmptyGqlCache
    /\ db \in AbsentTables
    /\ nextId = FirstFreeId
    /\ writes = 0
    /\ mutLast = NoMutation
    /\ loaderCreated = FALSE
    /\ request = 0
    /\ idMemo = EmptyIdMemo
    /\ emailMemo = EmptyEmailMemo
    /\ idQueue = <<>>
    /\ emailQueue = <<>>
    /\ phase = "dispatched"
    /\ ticks = 0
    /\ tickCalls = <<>>
    /\ tickFetches = <<>>
    /\ tickResults = <<>>
    /\ clearLast = NoClear
    /\ qbCache = EmptyQbCache
    /\ qbReads = NoReads
    /\ qbLast = NoCall
    /\ queryTimes = NoSamples
    /\ wlog = <<>>
    /\ listOptions = <<>>
    /\ listResult = NoList
    /\ invalidated = {}
    /\ heap = NoObjects
    /\ held = {}
    /\ callLast = NoRequest
    /\ operationTimes = NoSamples
    /\ timers = <<>>
    /\ stopLog = <<>>
    /\ statsLast = NoStats
    /\ requestCounts = NoRequestCounts
    /\ requestTimes = NoRequestTimes
    /\ requestLog = <<>>

SpecAbsent == InitAbsent /\ [][NextAbsent]_vars

\* ---- RequestMonitor ----
restOfRequests == <<costVars, gqlVars, dbVars, loaderVars, qbVars, listVars, invalidated,
                    shareVars, accessVars, monitorVars>>

NextRequests ==
    \/ RecordRequest /\ UNCHANGED <<now, restOfRequests>>
    \/ Advance(RequestTimes) /\ UNCHANGED <<requestVars, restOfRequests>>

InitRequests ==
    /\ info = IdleInfo
    /\ rules = complexityRules
    /\ costResult = NotCalled
    /\ now = 0
    /\ gqlCache = EmptyGqlCache
    /\ gqlLast = NoGet
    /\ gqlWritten = EmptyGqlCache
    /\ db = InitialDb
    /\ nextId = FirstFreeId
    /\ writes = 0
    /\ mutLast = NoMutation
    /\ loaderCreated = FALSE
    /\ request = 0
    /\ idMemo = EmptyIdMemo
    /\ emailMemo = EmptyEmailMemo
    /\ idQueue = <<>>
    /\ emailQueue = <<>>
    /\ phase = "dispatched"
    /\ ticks = 0
    /\ tickCalls = <<>>
    /\ tickFetches = <<>>
    /\ tickResults = <<>>
    /\ clearLast = NoClear
    /\ qbCache = EmptyQbCache
    /\ qbReads = NoReads
    /\ qbLast = NoCall
    /\ queryTimes = NoSamples
    /\ wlog = <<>>
    /\ listOptions = <<>>
    /\ listResult = NoList
    /\ invalidated = {}
    /\ heap = NoObjects
    /\ held = {}
    /\ callLast = NoRequest
    /\ operationTimes = NoSamples
    /\ timers = <<>>
    /\ stopLog = <<>>
    /\ statsLast = NoStats
    /\ \E n \in StartCounts :
          /\ requestCounts = AfterRequests(n).counts
          /\ requestTimes = AfterRequests(n).times
          /\ requestLog = AfterRequests(n).log

SpecRequests == InitRequests /\ [][NextRequests]_vars

(***************************************************************************)
(* Claims about QueryComplexityAnalyzer (checked under SpecCost)           *)
(***************************************************************************)
\* sum of f[lo..hi], split in halves
RECURSIVE SumFn(_, _, _)
SumFn(f, lo, hi) ==
    IF lo > hi THEN 0
    ELSE IF lo = hi THEN f[lo]
    ELSE LET mid == (lo + hi) \div 2
         IN  SumFn(f, lo, mid) + SumFn(f, mid + 1, hi)

TopSelections == IF info.hasSelectionSet THEN info.selections ELSE <<>>

\* The weights of the leaf fields of a list, all looked up under one row.
LeafWeights(rs, sels, row) ==
    SumFn([j \in 1..Len(sels) |-> calculateFieldComplexity(rs, sels[j].name, row)],
          1, Len(sels))

\* What one top-level selection of an info of Infos weighs: a field's own
\* weight plus the weights of its children (looked up under the row the
\* analyzer consults for them), an inline fragment's fields, nothing for a
\* fragment spread.
NodeWeight(rs, node, row) ==
    IF node.kind = "Field"
    THEN calculateFieldComplexity(rs, node.name, row)
         + LeafWeights(rs, node.selections, node.name)
    ELSE IF node.kind = "InlineFragment"
    THEN LeafWeights(rs, node.selections, row)
    ELSE 0

SumOfWeights ==
    SumFn([k \in 1..Len(TopSelections) |-> NodeWeight(rules, TopSelections[k], info.parentType)],
          1, Len(TopSelections))

ExampleSelection == <<Fld("a"), FldSel("b", <<Fld("c")>>)>>

\* C7: calculateComplexity computes the sum, over the fields of the top-level
\* selection, of the field's weight plus the cost of its child selection; the
\* selection a (3), b (1) with child c (2) costs 3 + (1 + 2) = 6.
C7_CostIsSumOfWeights ==
    costResult.called =>
        /\ costResult.complexity = SumOfWeights
        /\ (rules = ExampleRules /\ info.parentType = "Root"
            /\ TopSelections = ExampleSelection)
           => (~costResult.threw /\ costResult.complexity = 3 + (1 + 2))

C7_Witness ==
    /\ costResult.called
    /\ rules = ExampleRules
    /\ info.parentType = "Root"
    /\ TopSelections = ExampleSelection
    /\ costResult.complexity = 6

\* C8: the call throws exactly when the computed complexity is greater than
\* 1000; the error carries the computed complexity and the ceiling 1000;
\* complexity 1000 is returned, complexity 1001 is rejected with (1001, 1000).
C8_CeilingIsExclusive ==
    costResult.called =>
        /\ costResult.threw <=> costResult.complexity > 1000
        /\ costResult.threw => costResult.maximum = 1000
        /\ costResult.complexity = SumOfWeights

C8_Witness ==
    /\ costResult.called
    /\ costResult.threw
    /\ costResult.complexity = 1001
    /\ costResult.maximum = 1000

\* the weight the table lists for the field, 1 when it lists none
ListedWeight(rs, fieldName, row) ==
    IF IsListed(rs, fieldName, row) THEN rs[row][fieldName] ELSE 1

\* C9 (as claimed): a listed field contributes exactly its listed weight, 0
\* included; only an unlisted field contributes the default 1. Stated for a
\* selection of one plain field whose parent type is the row the analyzer
\* consults.
C9_ListedWeightIsUsed ==
    (/\ costResult.called
     /\ info.returnType = info.parentType
     /\ Len(TopSelections) = 1
     /\ TopSelections[1].kind = "Field"
     /\ ~TopSelections[1].hasSelectionSet)
    => costResult.complexity
         = ListedWeight(rules, TopSelections[1].name, info.parentType)

\* The result type of a field, from the schema (typeDefs) and, for the types
\* of ExampleRules, from that table's description.
FieldType(typeName, fieldName) ==
    CASE typeName = "Query" /\ fieldName = "employees" -> "EmployeePage"
      [] typeName = "Query" /\ fieldName = "employee" -> "Employee"
      [] typeName = "EmployeePage" /\ fieldName = "employees" -> "Employee"
      [] typeName = "LoginPayload" /\ fieldName = "employee" -> "Employee"
      [] typeName = "Mutation" /\ fieldName = "login" -> "LoginPayload"
      [] typeName = "Employee" /\ fieldName = "manager" -> "Employee"
      [] typeName = "Root" /\ fieldName = "self" -> "Root"
      [] typeName = "Root" /\ fieldName = "b" -> "b"
      [] OTHER -> "Unknown"

\* One top-level selection costed with the row of its parent type, its
\* children with the row of the field's result type.
TypedNodeWeight(rs, node, typeName) ==
    IF node.kind = "Field"
    THEN calculateFieldComplexity(rs, node.name, typeName)
         + LeafWeights(rs, node.selections, FieldType(typeName, node.name))
    ELSE IF node.kind = "InlineFragment"
    THEN LeafWeights(rs, node.selections, typeName)
    ELSE 0

\* C10 (as claimed): every selected field is costed with the row of its
\* parent type: the fields selected under the resolved field with the row of
\* its result type, their children with the row of their field's result type.
C10_ParentTypeRowIsUsed ==
    costResult.called =>
        costResult.complexity
          = SumFn([k \in 1..Len(TopSelections) |->
                     TypedNodeWeight(rules, TopSelections[k], info.returnType)],
                  1, Len(TopSelections))

(***************************************************************************)
(* Claims about GraphQLCache (checked under SpecCache)                     *)
(***************************************************************************)
\* C1: while the last set(k, v, ttl) at t0 is followed by no other set and no
\* clear of k, get(k) returns v at every time t0 <= t <= t0 + ttl and null at
\* every time t > t0 + ttl.
C1_TtlCorrectness ==
    (gqlLast.op = "get" /\ gqlWritten[gqlLast.key].present) =>
        LET w == gqlWritten[gqlLast.key]
        IN  /\ gqlLast.at = now /\ now >= w.timestamp
            /\ gqlLast.at <= w.timestamp + w.ttl => gqlLast.result = w.data
            /\ gqlLast.at > w.timestamp + w.ttl => gqlLast.result = Null

\* a get at exactly t0 + ttl, ttl > 0, that returned the value
C1_Witness ==
    /\ gqlLast.op = "get"
    /\ gqlWritten[gqlLast.key].present
    /\ gqlWritten[gqlLast.key].ttl > 0
    /\ gqlLast.at = gqlWritten[gqlLast.key].timestamp + gqlWritten[gqlLast.key].ttl
    /\ gqlLast.result = gqlWritten[gqlLast.key].data

\* ---- EmployeeDataLoader ----

Loaders == {"id", "email"}
TickEnded == phase = "dispatched" /\ tickCalls # <<>>
CallsOf(loader) == SelectSeq(tickCalls, LAMBDA c : c.loader = loader)
FetchesOf(loader) == SelectSeq(tickFetches, LAMBDA f : f.loader = loader)
KeysOf(calls) == {calls[k].key : k \in DOMAIN calls}
ElementsOf(keys) == {keys[k] : k \in DOMAIN keys}
NoDuplicates(keys) == \A i, j \in DOMAIN keys : keys[i] = keys[j] => i = j
\* the keys of the tick's calls that found no promise in the cache, in call order
MissedKeys(loader) ==
    LET missed == SelectSeq(tickCalls, LAMBDA c : c.loader = loader /\ c.found = "absent")
    IN  [k \in DOMAIN missed |-> missed[k].key]

\* C3 as stated: whatever the loader's state, when a tick with load calls on n
\* distinct keys ends, the loader has made exactly one findMany call and that
\* call asked for exactly those n keys, each once.
C3_OneFetchOfTheDistinctKeys ==
    TickEnded =>
        \A loader \in Loaders :
            CallsOf(loader) # <<>> =>
                /\ Len(FetchesOf(loader)) = 1
                /\ ElementsOf(FetchesOf(loader)[1].keys) = KeysOf(CallsOf(loader))
                /\ NoDuplicates(FetchesOf(loader)[1].keys)

\* C3 amended: when a tick ends, each loader has made at most one findMany
\* call; it asked, in call order, for exactly the keys whose load call found
\* no promise in the cache, and no call was made when every key was cached.
\* When no call of the tick found a settled promise and no key was cleared
\* in the middle of the tick, that is one call for the n distinct keys.
C3_OneFetchOfTheMissedKeys ==
    TickEnded =>
        \A loader \in Loaders :
            /\ IF MissedKeys(loader) = <<>>
               THEN FetchesOf(loader) = <<>>
               ELSE /\ Len(FetchesOf(loader)) = 1
                    /\ FetchesOf(loader)[1].keys = MissedKeys(loader)
            /\ (/\ CallsOf(loader) # <<>>
                /\ NoDuplicates(MissedKeys(loader))
                /\ \A k \in DOMAIN tickCalls :
                      tickCalls[k].loader = loader => tickCalls[k].found # "resolved")
               => /\ Len(FetchesOf(loader)) = 1
                  /\ ElementsOf(FetchesOf(loader)[1].keys) = KeysOf(CallsOf(loader))
                  /\ NoDuplicates(FetchesOf(loader)[1].keys)

\* a tick of three id loads on two distinct keys, one of them cached by an
\* earlier tick: one findMany call, for the other key only
C3_Witness ==
    /\ TickEnded
    /\ Len(tickCalls) = 3
    /\ \A k \in DOMAIN tickCalls : tickCalls[k].loader = "id"
    /\ Cardinality(KeysOf(tickCalls)) = 2
    /\ \E k \in DOMAIN tickCalls : tickCalls[k].found = "resolved"
    /\ Len(tickFetches) = 1
    /\ Len(tickFetches[1].keys) = 1

KeyOfRow(loader, row) == IF loader = "id" THEN row.id ELSE row.email
BoundToBatch(call) == call.found # "resolved"

\* C4: when a tick ends and the store answered, the i-th load call's result is
\* a row whose key is the i-th requested key, or null; a call served by the
\* tick's bulk fetch gets the store's row for its key, and null exactly when
\* no row matched, whatever order the rows came back in; two calls for the
\* same key get the identical result, from the same fetch (a sequence of loads
\* alone never serves one key both from a settled promise and from the fetch:
\* that takes a clear between the two calls).
C4_PositionalFanOut ==
    TickEnded =>
        \A i \in DOMAIN tickResults :
            ~tickResults[i].error =>
                /\ tickResults[i].value.present =>
                      KeyOfRow(tickCalls[i].loader, tickResults[i].value) = tickCalls[i].key
                /\ BoundToBatch(tickCalls[i]) =>
                      tickResults[i].value = tickResults[i].current
                /\ \A j \in DOMAIN tickResults :
                      (/\ i < j
                       /\ tickCalls[j].loader = tickCalls[i].loader
                       /\ tickCalls[j].key = tickCalls[i].key
                       /\ ~tickResults[j].error
                       /\ BoundToBatch(tickCalls[j]) = BoundToBatch(tickCalls[i]))
                      => tickResults[j] = tickResults[i]

\* load(k1), load(k2), load(k1) in one tick, both rows exist, and the store
\* returned the row of k2 before the row of k1
C4_Witness ==
    /\ TickEnded
    /\ Len(tickCalls) = 3
    /\ \A k \in DOMAIN tickCalls : tickCalls[k].loader = "id" /\ tickCalls[k].found # "resolved"
    /\ tickCalls[1].key = tickCalls[3].key
    /\ tickCalls[1].key # tickCalls[2].key
    /\ Len(tickFetches) = 1
    /\ tickFetches[1].ok
    /\ Len(tickFetches[1].rows) = 2
    /\ tickFetches[1].rows[1].id = tickCalls[2].key
    /\ tickFetches[1].rows[2].id = tickCalls[1].key
    /\ tickResults[1].value.present
    /\ tickResults[3] = tickResults[1]

\* C5: a load whose result was memoized during an earlier request returns the
\* row the store currently holds: after the row was changed or deleted, the
\* memoized result of the earlier request is never what the load returns.
C5_MemoEndsWithTheRequest ==
    TickEnded =>
        \A k \in DOMAIN tickResults :
            (~tickResults[k].error /\ tickResults[k].fetchedIn < request)
            => tickResults[k].value = tickResults[k].current

\* ---- OptimizedQueryBuilder ----

\* the cached result of the key could include the row with this id
CouldInclude(op, key, id) == op = "getEmployees" \/ key = employeeKey(id)

\* C2: a facade call never returns a cached result that was stored before a
\* successful write to a row the result could include.
C2_WritesInvalidateTheCache ==
    qbLast.outcome = "hit" =>
        \A k \in DOMAIN wlog :
            k > qbLast.storedAfter => ~CouldInclude(qbLast.op, qbLast.key, wlog[k])

AnswersInFlight == \E slot \in Slots : qbReads[slot].pc = "fetching"

\* C6: for a request whose estimated cost exceeds the ceiling the facade
\* serves no cached result, asks the store nothing and writes no cache entry.
C6_ReadsStartWithTheCostCheck ==
    (qbLast.op # "none" \/ AnswersInFlight \/ qbCache # EmptyQbCache)
    => ~calculateComplexity(rules, info).threw

\* ---- fragments ----

\* info.fragments: the fragment definitions of the request's document
fragments == [EmployeeFields |-> <<Fld("id"), Fld("subjects")>>]

\* a selection list with its top-level fragments replaced by the fields they
\* bring in: an inline fragment by its selections, a spread by the selections
\* of the fragment it names
RECURSIVE ExpandRange(_, _, _)
ExpandRange(selections, lo, hi) ==
    IF lo > hi THEN <<>>
    ELSE IF lo = hi
    THEN (IF selections[lo].kind = "InlineFragment" THEN selections[lo].selections
          ELSE IF selections[lo].kind = "FragmentSpread" THEN fragments[selections[lo].name]
          ELSE <<selections[lo]>>)
    ELSE LET mid == (lo + hi) \div 2
         IN  ExpandRange(selections, lo, mid) \o ExpandRange(selections, mid + 1, hi)
Expanded(selections) == ExpandRange(selections, 1, Len(selections))

\* C11: the cost of a selection equals the cost of the same selection with
\* the fields of its inline fragments and of its named fragment spreads
\* written directly under the same parent type.
C11_FragmentsAreTransparent ==
    (costResult.called /\ info.hasSelectionSet) =>
        traverse(rules, info.selections, info.parentType)
        = traverse(rules, Expanded(info.selections), info.parentType)

\* ---- facade: hit path and miss path ----

\* what a miss for this key would build from the store as it is now
FreshResult(op, key) ==
    IF op = "getEmployee"
    THEN LET id == CHOOSE i \in ReadIds : employeeKey(i) = key
         IN  IF db[id].present THEN EmployeeResult(Normalized(Selected(db[id])))
             ELSE NullResult
    ELSE LET options == CHOOSE o \in ListOptions : optionsKey(o) = key
         IN  employeesResult(db, options)

\* C12: the value a miss returns is the value stored under its key, a hit
\* returns the stored value as it is, and that value has the shape the miss
\* path builds (as long as no write came in between it equals what a miss
\* would build now): hit path and miss path return identical values.
C12_HitReturnsWhatTheMissReturned ==
    /\ qbLast.outcome = "fetched" =>
          qbCache[qbLast.key].present /\ qbCache[qbLast.key].data = qbLast.data
    /\ qbLast.outcome = "hit" =>
          /\ qbCache[qbLast.key].present
          /\ qbCache[qbLast.key].data = qbLast.data
          /\ qbLast.storedAfter = writes => qbLast.data = FreshResult(qbLast.op, qbLast.key)

\* a page with parsed subjects and a start date in seconds is served from the
\* cache some time after it was stored
C12_Witness ==
    /\ qbLast.outcome = "hit"
    /\ qbLast.op = "getEmployees"
    /\ now > qbCache[qbLast.key].timestamp
    /\ Len(qbLast.data.employees) = 2
    /\ qbLast.data.employees[1].subjects = <<"math">>
    /\ qbLast.data.employees[1].startDate = <<1>>
    /\ qbLast.data.employees[2].startDate = NoDate

\* ---- facade: a failing fetch ----

\* C13: a facade call whose fetch fails ends with the error and changes no
\* cache entry: nothing is stored under its key, and the entry already stored
\* under its key and the entries of all other keys stay exactly as they were.
C13_FailedFetchLeavesTheCache ==
    [][qbLast'.outcome = "error" => qbCache' = qbCache]_vars

\* the fetch of a call fails while an expired entry sits under its key: the
\* entry is still there afterwards
C13_Witness ==
    /\ qbLast.outcome = "error"
    /\ qbCache[qbLast.key].present
    /\ ~IsFresh(qbCache, qbLast.key, now)

\* ---- facade: repeated calls ----

\* the entry of the key is inside its five-minute window at time t
Live(cache, key, t) == cache[key].present /\ t - cache[key].timestamp < cacheTTL

\* C14: a facade call made while the result stored by an earlier identical
\* call is inside its TTL window starts no fetch and returns that stored
\* result: the number of fetches stays what it was.
C14_RepeatedCallIsServedFromTheCache ==
    [][/\ \A slot \in Slots :
             (qbReads[slot].pc = "idle" /\ qbReads'[slot].pc = "fetching")
             => ~Live(qbCache, qbReads'[slot].key, now)
       /\ \A key \in QbKeys :
             (Live(qbCache, key, now) /\ qbLast'.op # "none" /\ qbLast'.key = key
              /\ qbLast'.outcome = "hit")
             => /\ qbLast'.data = qbCache[key].data
                /\ Timed' = Timed
                /\ qbCache' = qbCache]_vars

\* the second of two identical calls is served from the cache, some time
\* after the first one stored its result: one fetch was made in all
C14_Witness ==
    /\ qbLast.outcome = "hit"
    /\ qbLast.op = "getEmployees"
    /\ now = cacheTTL - 1
    /\ qbCache[qbLast.key].timestamp = 0
    /\ Timed = 1
    /\ Len(queryTimes.getEmployees) = 1

\* ---- facade: pages ----

\* the ids of the rows whose name contains the filter, whatever the case
MatchingIds(table, filter) ==
    {i \in DOMAIN table :
        table[i].present
        /\ \E k \in 0..(Len(LowerNameChars(table[i].name)) - Len(filter)) :
              \A j \in 1..Len(filter) :
                  LowerNameChars(table[i].name)[k + j] = LowerChar(filter[j])}
\* the id at the given offset (from 0) of the matching rows sorted by id
IdAtOffset(ids, offset) == CHOOSE i \in ids : Cardinality({j \in ids : j < i}) = offset

C16_NextQueryAfterInvalidateMisses ==
    [][\A k \in invalidated \cap BegunKeys : ~(qbLast'.outcome = "hit" /\ qbLast'.key = k)]_vars

\* ---- facade: cache keys ----

\* the same properties in every order
Reorderings(options) ==
    {[k \in DOMAIN options |-> options[f[k]]] :
        f \in {g \in [DOMAIN options -> DOMAIN options] :
                  \A i, j \in DOMAIN options : g[i] = g[j] => i = j}}

\* C17: the key of a call does not depend on the order in which the
\* properties of its arguments were given, and calls with different arguments
\* or of different operations have different keys.
C17_KeyOfTheArgumentSet ==
    listResult.called =>
        /\ \A options \in Reorderings(listOptions) : optionsKey(options) = listResult.key
        /\ \A options \in PageOptions :
              options # listOptions => optionsKey(options) # listResult.key
        /\ \A id \in ReadIds : employeeKey(id) # listResult.key

\* ---- the caches and the objects they hold ----

\* the caller changes an object it holds
CallerChanges == \E ref \in held : heap[ref].used /\ heap'[ref].value # heap[ref].value

\* C18: a change a caller makes to a value it passed to set, or received from
\* GraphQLCache.get or from a facade call, does not change what a lookup of
\* any key returns.
C18_CallerChangesDoNotReachTheCache ==
    [][CallerChanges =>
          /\ \A k \in GqlKeys :
                gqlCache[k].present /\ gqlCache'[k].present
                    => heap'[gqlCache'[k].data].value = heap[gqlCache[k].data].value
          /\ \A k \in QbKeys :
                qbCache[k].present /\ qbCache'[k].present
                    => heap'[qbCache'[k].data].value = heap[qbCache[k].data].value]_vars

\* ---- facade: the age at which an entry stops being served ----

\* C19: a facade call finds its stored result and serves it whenever
\* now - storedAt <= cacheTTL, the age of exactly cacheTTL included, and
\* misses only when now - storedAt > cacheTTL.
C19_ServedUpToTheTtl ==
    [][\A k \in BegunKeys :
          qbCache[k].present =>
              ((now - qbCache[k].timestamp <= cacheTTL)
                  <=> (qbLast'.outcome = "hit" /\ qbLast'.key = k))]_vars

\* ---- the loader's clear ----

\* C20: clear(id) drops the memoized result of the given id and of no other
\* key, whatever the id, 0 included: every other id's and every email's
\* memoized result stays in place.
C20_ClearDropsOnlyTheGivenId ==
    [][clearLast'.called /\ clearLast'.hasId =>
          /\ \A k \in Ids : idMemo'[k] = IF k = clearLast'.id THEN NoMemo ELSE idMemo[k]
          /\ emailMemo' = emailMemo]_vars

\* C21: clear() with no key invalidates the memoized results of all keys,
\* those loaded by id and those loaded by email: right after it, a load or
\* loadByEmail of any key finds nothing memoized and joins a new bulk fetch.
C21_ClearAllDropsEveryMemo ==
    clearLast.called /\ ~clearLast.hasId =>
        /\ \A id \in Ids : load(idMemo, idQueue, id).found.state = "absent"
        /\ \A email \in LoadEmails : load(emailMemo, emailQueue, email).found.state = "absent"

(***************************************************************************)
(* Claims about the requests (checked under SpecAccess)                    *)
(***************************************************************************)
\* C22: a caller with role EMPLOYEE sees only its own record: employees
\* returns the one row with the caller's id and totalCount 1 (an empty page
\* and totalCount 0 when the row is absent), employee(id) returns the
\* caller's own row whatever id was asked for, and no row of another
\* employee is ever in what the caller is returned.
C22_EmployeeSeesOnlyItsOwnRecord ==
    callLast.user.present /\ callLast.user.role = "EMPLOYEE" =>
        LET own == db[callLast.user.id]
        IN  /\ callLast.op = "employees" =>
                  /\ callLast.error = "none"
                  /\ callLast.data = IF own.present THEN PageResult(<<Normalized(own)>>, 1)
                                     ELSE PageResult(<<>>, 0)
            /\ callLast.op = "employee" =>
                  /\ callLast.error = "none"
                  /\ callLast.data = IF own.present THEN EmployeeResult(Normalized(own))
                                     ELSE NullResult
            /\ \A k \in DOMAIN callLast.data.employees :
                  callLast.data.employees[k].id = callLast.user.id

\* an EMPLOYEE asked for another employee's id and was returned its own row
C22_Witness ==
    /\ callLast.op = "employee"
    /\ callLast.user.role = "EMPLOYEE"
    /\ callLast.id # callLast.user.id
    /\ db[callLast.id].present
    /\ callLast.data.kind = "employee"
    /\ callLast.data.employees[1].id = callLast.user.id

GuardedMutations == {"addEmployee", "updateEmployee", "deleteEmployee", "resendPasswordEmail"}

\* C23: addEmployee, updateEmployee, deleteEmployee, resendPasswordEmail and
\* the paged list of all employees succeed only for a caller of role ADMIN;
\* for an authenticated caller of another role the mutations throw
\* ForbiddenError and leave the store as it was.
C23_OnlyAdminsWriteAndList ==
    [][/\ callLast'.op \in GuardedMutations /\ callLast'.error = "none"
            => callLast'.user.present /\ callLast'.user.role = "ADMIN"
       /\ callLast'.op = "employees" /\ callLast'.error = "none"
            /\ (\E k \in DOMAIN callLast'.data.employees :
                    callLast'.data.employees[k].id # callLast'.user.id)
            => callLast'.user.present /\ callLast'.user.role = "ADMIN"
       /\ callLast'.op \in GuardedMutations /\ callLast'.user.present
            /\ callLast'.user.role # "ADMIN"
            => /\ callLast'.error = "ForbiddenError"
               /\ callLast'.storeCalls = 0
               /\ store' = store]_vars

\* an EMPLOYEE's deleteEmployee was refused and every row is still there
C23_Witness ==
    /\ callLast.op = "deleteEmployee"
    /\ callLast.user.role = "EMPLOYEE"
    /\ callLast.error = "ForbiddenError"
    /\ db = InitialDb

\* no Authorization header, or a token that jwt.verify refuses
NoValidToken(header) == ~header.present \/ ~Verifies(header.token)

\* C24: employees, employee, addEmployee, updateEmployee, deleteEmployee and
\* resendPasswordEmail, called without a valid token, fail with
\* AuthenticationError and make no store call, read or write; the middleware
\* hands every request on.
C24_NoTokenNoStoreCall ==
    [][/\ callLast'.op # "none" /\ NoValidToken(callLast'.header)
            => /\ callLast'.error = "AuthenticationError"
               /\ callLast'.storeCalls = 0
               /\ store' = store
       /\ \A header \in Headers : jwtMiddleware(header).next]_vars

\* a forged token asked for deleteEmployee and was refused
C24_Witness ==
    /\ callLast.op = "deleteEmployee"
    /\ callLast.header.present
    /\ ~callLast.header.token.signed
    /\ callLast.error = "AuthenticationError"
    /\ db = InitialDb

\* ---- facade: concurrent calls for one key ----
InFlight(reads, key) == {slot \in Slots : reads[slot].pc = "fetching" /\ reads[slot].key = key}

\* C25: the facade coalesces nothing: a call that finds no usable entry for
\* its key starts a fetch of its own, also while a fetch for the same key is
\* in flight, so that two concurrent calls for an uncached key both miss and
\* both fetch.
C25_EveryMissStartsItsOwnFetch ==
    [][\A key \in QbKeys :
          /\ ~Live(qbCache, key, now)
          /\ key \in BegunKeys \/ (qbLast'.outcome = "joined" /\ qbLast'.key = key)
          => Cardinality(InFlight(qbReads', key)) = Cardinality(InFlight(qbReads, key)) + 1]_vars

\* two fetches are in flight for one key that has no entry
C25_Witness ==
    \E key \in QbKeys :
        /\ ~qbCache[key].present
        /\ Cardinality(InFlight(qbReads, key)) = 2

\* ---- facade: rows whose subjects text does not parse ----
\* the subjects texts that are JSON
JsonTexts == {"[]", "[\"math\"]", "[\"art\"]"}

\* C26: when the subjects text of a row does not parse, a getEmployees call
\* that the store answers returns that row with an empty subjects list and
\* every other row as usual, and the result is stored in the cache like any
\* other.
C26_UnparsableSubjectsBecomeEmpty ==
    [][qbLast'.op = "getEmployees" /\ qbLast'.outcome = "fetched" =>
          /\ Len(qbLast'.data.employees) = Cardinality({id \in Ids : db[id].present})
          /\ \A k \in DOMAIN qbLast'.data.employees :
                LET returned == qbLast'.data.employees[k]
                    row == db[returned.id]
                IN  IF row.subjects \in JsonTexts
                    THEN returned = Normalized(Selected(row))
                    ELSE returned = [Normalized(Selected(row)) EXCEPT !.subjects = <<>>]
          /\ qbCache'[qbLast'.key].present
          /\ qbCache'[qbLast'.key].data = qbLast'.data]_vars

\* a page with a row whose subjects text is not JSON was returned and stored
C26_Witness ==
    /\ qbLast.op = "getEmployees"
    /\ qbLast.outcome = "fetched"
    /\ \E k \in DOMAIN qbLast.data.employees :
          /\ db[qbLast.data.employees[k].id].subjects \notin JsonTexts
          /\ qbLast.data.employees[k].subjects = <<>>
    /\ \E k \in DOMAIN qbLast.data.employees :
          qbLast.data.employees[k].subjects = <<"math">>
    /\ qbCache[qbLast.key].data = qbLast.data

\* ---- GraphQLCache: set over an entry ----

\* C27: a set of a key, also of a key that has an entry, leaves the key with
\* the one entry that holds the value and ttl just given and the time of this
\* set as its timestamp, and changes the entry of no other key.
C27_SetReplacesTheEntry ==
    [][gqlLast'.op = "set" =>
          LET key == gqlLast'.key
          IN  /\ gqlCache'[key].present
              /\ gqlCache'[key].data = gqlWritten'[key].data
              /\ gqlCache'[key].ttl = gqlWritten'[key].ttl
              /\ gqlCache'[key].timestamp = now
              /\ \A other \in GqlKeys \ {key} : gqlCache'[other] = gqlCache[other]]_vars

\* a later set replaced the entry of a key while another key kept its own
C27_Witness ==
    \E key \in GqlKeys, other \in GqlKeys :
        /\ gqlLast.op = "set" /\ gqlLast.key = key /\ gqlLast.had
        /\ now > 0
        /\ gqlCache[key].timestamp = now
        /\ other # key
        /\ gqlCache[other].present /\ gqlCache[other].timestamp = 0

\* ---- the clear operations of the two caches ----

\* C28: clear(pattern) removes the entries whose key contains the pattern as
\* a substring and leaves every other entry as it was; clear with no pattern
\* removes every entry; GraphQLCache.clear and
\* OptimizedQueryBuilder.clearCache alike.
C28_ClearRemovesTheKeysContainingThePattern ==
    [][/\ gqlLast'.op = "clear" =>
            \A k \in GqlKeys :
                gqlCache'[k] = IF ~gqlLast'.had \/ Includes(k, gqlLast'.key)
                               THEN NoEntry ELSE gqlCache[k]
       /\ qbLast'.op = "clearCache" =>
            \A k \in QbKeys :
                qbCache'[k] = IF qbLast'.outcome = "all" \/ Includes(k, qbLast'.key)
                              THEN NoQbEntry ELSE qbCache[k]]_vars

\* clearCache('1') removed the entry of employee_1 and left that of employee_2
C28_Witness ==
    /\ qbLast.op = "clearCache"
    /\ qbLast.outcome = "pattern"
    /\ qbLast.key = NumberChars(1)
    /\ qbLast.removed = {employeeKey(1)}
    /\ qbCache[employeeKey(2)].present

\* ---- C29 ----
\* the durations the callbacks of a monitor have recorded under a name, in order
RECURSIVE SamplesOf(_, _, _)
SamplesOf(log, monitor, name) ==
    IF log = <<>> THEN <<>>
    ELSE LET rest == SamplesOf(SubSeq(log, 1, Len(log) - 1), monitor, name)
             last == log[Len(log)]
         IN  IF last.monitor = monitor /\ last.name = name
             THEN Append(rest, last.duration) ELSE rest

\* C29: for either monitor and every name, the stats call reports an entry
\* exactly for the names with a recorded sample, and in it count is the number
\* of samples recorded under the name since the start, average is their
\* arithmetic mean and max is their maximum: no sample is dropped.
C29_StatsCoverEverySample ==
    statsLast.monitor # "none" =>
        \A name \in OperationNames :
            LET samples == SamplesOf(stopLog, statsLast.monitor, name)
            IN  IF samples = <<>> THEN name \notin DOMAIN statsLast.stats
                ELSE /\ name \in DOMAIN statsLast.stats
                     /\ statsLast.stats[name].count = Len(samples)
                     /\ statsLast.stats[name].avg.sum * Len(samples) =
                            reduceSum(samples) * statsLast.stats[name].avg.over
                     /\ statsLast.stats[name].avg.over > 0
                     /\ \E k \in DOMAIN samples : statsLast.stats[name].max = samples[k]
                     /\ \A k \in DOMAIN samples : samples[k] <= statsLast.stats[name].max

\* stats of the operation monitor after three samples of one name, not all equal
C29_Witness ==
    /\ statsLast.monitor = "graphql"
    /\ "getEmployee" \in DOMAIN statsLast.stats
    /\ statsLast.stats["getEmployee"].count = 3
    /\ statsLast.stats["getEmployee"].max = 2
    /\ statsLast.stats["getEmployee"].avg.sum = 3

\* ---- C30 ----
\* C30: a callback has no guard against a second invocation: invoking a
\* callback that was invoked before appends one more sample to the sequence of
\* its name, so one start call can account for two samples.
C30_SecondInvocationRecordsAgain ==
    [][(/\ Len(stopLog') = Len(stopLog) + 1
        /\ \E k \in DOMAIN stopLog : stopLog[k].timer = stopLog'[Len(stopLog')].timer)
       => LET stopped == stopLog'[Len(stopLog')]
          IN  IF stopped.monitor = "graphql"
              THEN operationTimes'[stopped.name] =
                       Append(operationTimes[stopped.name], stopped.duration)
              ELSE queryTimes'[stopped.name] =
                       Append(queryTimes[stopped.name], stopped.duration)]_vars

\* one start call, its callback invoked twice, two samples
C30_Witness ==
    /\ Len(timers) = 1
    /\ timers[1].monitor = "query"
    /\ Len(stopLog) = 2
    /\ Len(queryTimes[timers[1].name]) = 2
    /\ statsLast.monitor = "query"
    /\ statsLast.stats[timers[1].name].count = 2

\* ---- C31 ----
\* C31: calculateComplexity is a pure function of the selection tree and the
\* weight table: a call, returning or throwing, yields the value the tree and
\* the table determine and leaves the weight table, the caches, the timer
\* samples, the loader and the store as they were, so what any later call
\* returns is what it would have returned without it.
C31_CalculateComplexityIsPure ==
    [][(costResult' # costResult \/ info' # info)
       => /\ costResult' = calculateComplexity(rules, info')
          /\ UNCHANGED <<rules, gqlCache, qbCache, operationTimes, queryTimes, timers,
                         idMemo, emailMemo, idQueue, emailQueue, db, now>>
          /\ \A key \in GqlKeys : gqlGet(gqlCache', key, now') = gqlGet(gqlCache, key, now)
          /\ getOperationStats(operationTimes') = getOperationStats(operationTimes)
          /\ getQueryStats(queryTimes') = getQueryStats(queryTimes)]_vars

\* a call that threw, made while the cache holds an entry and the monitor a sample
C31_Witness ==
    /\ costResult.called
    /\ costResult.threw
    /\ \E key \in GqlKeys : gqlCache[key].present
    /\ \E name \in OperationNames : operationTimes[name] # <<>>

\* ---- C32 ----
\* a lookup of GraphQLCache.get that found an entry older than its ttl
GqlLookupFoundExpired ==
    /\ gqlLast'.op = "get"
    /\ gqlCache[gqlLast'.key].present
    /\ now - gqlCache[gqlLast'.key].timestamp > gqlCache[gqlLast'.key].ttl

\* a facade call missed on a key that has an entry: the entry is too old
FacadeLookupFoundExpired(slot) ==
    /\ qbReads[slot].pc = "idle"
    /\ qbReads'[slot].pc = "fetching"
    /\ qbCache[qbReads'[slot].key].present

\* C32: every lookup that finds an expired entry, in GraphQLCache.get and in
\* the facade's calls alike, is a miss and removes the entry, so the size the
\* cache statistics report counts a stale entry only until the first lookup of
\* its key after expiry.
C32_ExpiredEntriesAreEvictedAtLookup ==
    [][/\ GqlLookupFoundExpired
          => gqlLast'.result = Null /\ ~gqlCache'[gqlLast'.key].present
       /\ \A slot \in Slots :
             FacadeLookupFoundExpired(slot) => ~qbCache'[qbReads'[slot].key].present]_vars

\* ---- C33 ----
\* C33: once clearCache has run for a row after a write to it, the facade
\* cache holds no result for that row that was read from the store before the
\* write, also when the read was answered before the write and its call
\* stores the result after the clear.
C33_NoResultFromBeforeTheWriteAfterClear ==
    \A id \in ReadIds :
        (employeeKey(id) \in invalidated /\ qbCache[employeeKey(id)].present)
        => \A k \in DOMAIN wlog :
               wlog[k] = id => qbCache[employeeKey(id)].storedAfter >= k

\* ---- C34 ----
\* C34: an account with role ADMIN is created only by a caller authenticated
\* as ADMIN: calls made without a token produce no ADMIN row in the store and
\* no login token carrying role ADMIN for an account made that way.
C34_OnlyAdminsMakeAdmins ==
    [][/\ \A id \in Ids :
             (/\ db'[id].present /\ db'[id].role = "ADMIN"
              /\ ~(db[id].present /\ db[id].role = "ADMIN"))
             => callLast'.user.present /\ callLast'.user.role = "ADMIN"
       /\ (callLast'.op = "login" /\ callLast'.error = "none"
           /\ callLast'.token.payload.role = "ADMIN")
          => (/\ InitialDb[callLast'.token.payload.id].present
              /\ InitialDb[callLast'.token.payload.id].role = "ADMIN")]_vars

\* ---- C35 ----
\* C35: when resendPasswordEmail returns false (the email service reported
\* failure or threw) the employee's stored password hash is what it was before
\* the call; the stored password changes only when true is returned.
C35_FailedResendKeepsThePassword ==
    [][/\ (callLast'.op = "resendPasswordEmail" /\ mutLast'.returned = "false")
          => db'[mutLast'.id].password = db[mutLast'.id].password
       /\ (callLast'.op = "resendPasswordEmail"
           /\ \E id \in Ids : db'[id].password # db[id].password)
          => mutLast'.returned = "true"]_vars

\* ---- C36 ----
\* C36: in addEmployee a failure or an exception of the password email never
\* fails the mutation and never undoes the creation: the row created before
\* the send is in the store and the mutation returns it.
C36_MailFailureKeepsTheNewEmployee ==
    [][(callLast'.op = "addEmployee" /\ callLast'.user = Admin /\ nextId' # nextId)
       => /\ mutLast'.error = "none"
          /\ mutLast'.returned = "row"
          /\ mutLast'.id = nextId
          /\ db'[nextId].present
          /\ db'[nextId].role = "EMPLOYEE"]_vars

\* an employee was added although the email service threw
C36_Witness ==
    /\ callLast.op = "addEmployee"
    /\ callLast.mail = "threw"
    /\ mutLast.error = "none"
    /\ mutLast.returned = "row"
    /\ db[mutLast.id].present
    /\ db[mutLast.id].email = "c@x"

\* ---- C37 ----
\* C37: getEmployeeWithOptimization for an id that has no row returns null
\* (or the store's failure) and leaves the cache as it was: no entry is stored,
\* overwritten or removed, so no such call is served from the cache and every
\* one of them issues a fetch.
C37_NoRowNoEntry ==
    [][\A id \in ReadIds :
          (/\ ~db[id].present
           /\ qbLast'.op = "getEmployee"
           /\ qbLast'.key = employeeKey(id))
          => /\ qbLast'.outcome \in {"null", "error"}
             /\ qbCache' = qbCache]_vars

\* ---- C38 ----
\* the slots whose call ends in this step
Ending == {slot \in Slots : qbReads[slot].pc = "fetching" /\ qbReads'[slot].pc = "idle"}

\* C38: a facade call that misses the cache records exactly one duration
\* sample, under its operation name, when it ends: also when the fetch fails or
\* finds no row; a call served from the cache, and the start of a miss, record
\* none.
C38_OneSamplePerMiss ==
    [][IF Ending = {} THEN queryTimes' = queryTimes
       ELSE \A slot \in Ending :
               LET read == qbReads[slot]
               IN  /\ qbLast'.outcome \in {"fetched", "null", "error"}
                   /\ queryTimes'[read.op] = Append(queryTimes[read.op], now - read.startedAt)
                   /\ \A name \in DOMAIN queryTimes :
                          name # read.op => queryTimes'[name] = queryTimes[name]]_vars

\* a call for a missing row and a call whose fetch failed, one sample each
C38_Witness ==
    /\ qbLast.outcome = "null"
    /\ Len(queryTimes.getEmployee) = 1
    /\ Len(queryTimes.getEmployees) = 1
    /\ \A k \in QbKeys : ~qbCache[k].present

\* ---- C39 ----
\* the start of the current window, given the times of an endpoint's calls
\* and the start of its first window: a call that comes more than
\* resetInterval after a window's start starts the next window
RECURSIVE LastStart(_, _)
LastStart(times, start) ==
    LET later == {t \in times : t - start > resetInterval}
    IN  IF later = {} THEN start
        ELSE LastStart(times, CHOOSE t \in later : \A u \in later : t <= u)

\* the window of an endpoint after the calls of a log
WindowOf(log, endpoint) ==
    LET calls == SelectSeq(log, LAMBDA call : call.endpoint = endpoint)
        times == {calls[k].at : k \in DOMAIN calls}
        start == LastStart(times, calls[1].at)
        inWindow == SelectSeq(calls, LAMBDA call : call.at >= start)
    IN  IF calls = <<>> THEN [open |-> FALSE, start |-> 0, durations |-> <<>>]
        ELSE [open |-> TRUE, start |-> start,
              durations |-> [k \in DOMAIN inWindow |-> inWindow[k].duration]]

\* the most recent n elements
LastOf(s, n) == SubSeq(s, Len(s) - n + 1, Len(s))

\* C39: after any sequence of recordRequest calls, for every endpoint the
\* count is the number of requests recorded since the window's reset and the
\* retained list holds the most recent min(count, 100) durations of the window,
\* never more than 100; a request arriving more than 60000 ms after the last
\* reset starts a window with count 1 and one retained duration.
C39_RetainedTimesAreTheLatestOfTheWindow ==
    \A endpoint \in Endpoints :
        LET window == WindowOf(requestLog, endpoint)
            count == requestCounts[endpoint].count
        IN  /\ requestCounts[endpoint].present = window.open
            /\ count = Len(window.durations)
            /\ requestCounts[endpoint].lastReset = window.start
            /\ Len(requestTimes[endpoint]) <= 100
            /\ requestTimes[endpoint] =
                   LastOf(window.durations, IF count < 100 THEN count ELSE 100)
            /\ (/\ requestLog # <<>>
                /\ requestLog[Len(requestLog)].endpoint = endpoint
                /\ requestLog[Len(requestLog)].at = window.start
                /\ count = 1)
               => requestTimes[endpoint] = <<requestLog[Len(requestLog)].duration>>

\* the 101st request of a window: the oldest duration has left the list
C39_Witness ==
    /\ requestCounts["GET /health"].count = 101
    /\ Len(requestTimes["GET /health"]) = 100
    /\ requestTimes["GET /health"][100] = 200
    /\ requestTimes["GET /health"][1] = 2
    /\ requestLog[Len(requestLog)] = Recorded("GET /health", 200, resetInterval)

====
